---- MODULE Spec2Model ----
(***************************************************************************)
(* Verification model of the classification and cross-source aggregation   *)
(* core of the daily/weekly safety reports:                                *)
(*   src/weekly_casing_briefing.py    (names kept as in the source)        *)
(*   src/daily_casing_camera_report.py, src/daily_speeding_report.py       *)
(*                                    (names carry the suffix _daily)      *)
(*                                                                         *)
(* Every function of the core is a pure function of its arguments.  Each   *)
(* specification below starts in the state before the call (pc = "start"), *)
(* and its action draws the arguments from a bounded set, applies the      *)
(* function as the code computes it and stores arguments and result        *)
(* (pc names the call that was made).                                      *)
(*                                                                         *)
(* Text is modelled by TLA+ strings; Len, SubSeq and \o act on them as on  *)
(* sequences of characters, so lower(), strip(), "in" and startswith() are *)
(* computed character by character.                                        *)
(***************************************************************************)
EXTENDS Integers, Sequences, FiniteSets, TLC

VARIABLES
    pc,                 \* "start" before the call, then the name of the call made
    src,                \* the script whose function ran: "daily" or "weekly"
    event_type,         \* argument of _classify_tier
    tier,               \* result of _classify_tier
    raw_event,          \* raw speeding event handed to the enrich function
    enriched,           \* the enriched speeding event
    camera_events,      \* arguments of analyze_red_flag_drivers
    speeding_events,
    kpa_incidents,
    red_flags,          \* result of analyze_red_flag_drivers
    row,                \* one KPA assessment row (ordered key/value fields)
    findings,           \* _extract_findings(row)
    categories,         \* the findings of row grouped by _categorize_finding
    status,             \* _get_assessment_status(row)
    assessments,        \* argument of analyze_field_assessments
    assessment_analysis, \* its result: [with_findings, clean]
    finding_text,       \* argument of _categorize_finding
    category,           \* its result
    now_utc,            \* the clock reading of get_week_range, in UTC
    week_range,         \* its result
    pipeline,           \* which of the four pipelines ran
    raw_events,         \* the events of the vendor's answer
    pipeline_clock,     \* datetime.now(timezone.utc) of the run
    pipeline_result,    \* the list the pipeline returned and the counts it printed
    kpa_call,           \* which KPA pull ran
    kpa_rows,           \* the CSV rows of the vendor's answer
    kpa_result,         \* what the pull returned
    enrich_call,        \* the enrich function called and its arguments
    enrich_out,         \* what the enrich call returned, or that it raised
    division_call,      \* the vehicle number and group lookup of an enrich_event call
    division_out,       \* the event enrich_event returned
    norm_call,          \* the script and the raw type string of a normalize call
    norm_out,           \* its canonical type and tier
    offender_call,      \* the source and the enriched events of a repeat-offender table
    offender_out,       \* the rows of the table
    score_call,         \* the arguments of the yard scorecard
    score_out,          \* yard_scores after the sort
    rec_analysis,       \* the assessment analysis handed to _generate_assessment_recommendations
    rec_first,          \* the recommendations of one run
    rec_second,         \* the recommendations of another run over the same analysis
    dist_events,        \* the events of the file that main loads
    dist_env,           \* whether the events file exists and the Gmail credentials are set
    dist_run,           \* the counters, the mail sent and the lines printed by the loop
    name_call,          \* the vehicle number handed to the name parser
    name_candidate,     \* the candidate of the while loop
    name_trace,         \* the candidates so far: at the start and after each pass
    name_out            \* the name parsed, "" if there is none

\* The variables of the classification and aggregation calls.
coreVars == <<src, event_type, tier, raw_event, enriched,
              camera_events, speeding_events, kpa_incidents, red_flags,
              row, findings, categories, status, assessments,
              assessment_analysis>>

categoryVars == <<finding_text, category>>

weekVars == <<now_utc, week_range>>

pipelineVars == <<pipeline, raw_events, pipeline_clock, pipeline_result>>

kpaVars == <<kpa_call, kpa_rows, kpa_result>>

enrichVars == <<enrich_call, enrich_out>>

divisionVars == <<division_call, division_out>>

normVars == <<norm_call, norm_out>>

offenderVars == <<offender_call, offender_out>>

scoreVars == <<score_call, score_out>>

recVars == <<rec_analysis, rec_first, rec_second>>

distVars == <<dist_events, dist_env, dist_run>>

nameVars == <<name_call, name_candidate, name_trace, name_out>>

\* The variables of the other calls.
extVars == <<categoryVars, weekVars, pipelineVars, kpaVars, enrichVars, divisionVars, normVars, offenderVars, scoreVars, recVars, distVars, nameVars>>

vars == <<pc, coreVars, extVars>>

\* Python's None where a string or a record is expected.
None == "None"

\* Python's None where a number is expected: event.get(key) of a key that is
\* missing from the raw event or holds null.
NoneNum == -1

-----------------------------------------------------------------------------
(* Generic helpers *)

Range(s) == {s[i] : i \in 1..Len(s)}

\* All sequences over S of length at most n.
SeqsUpTo(S, n) == UNION {[1..k -> S] : k \in 0..n}

-----------------------------------------------------------------------------
(* Camera event tiers: EVENT TYPE CLASSIFICATION *)

RED_TYPES ==
    {"distraction", "cell_phone", "drowsiness", "close_following",
     "forward_collision_warning", "collision", "near_collision",
     "stop_sign_violation", "unsafe_lane_change", "lane_swerving"}

ORANGE_TYPES ==
    {"hard_brake", "seat_belt_violation", "camera_obstruction", "smoking",
     "unsafe_parking"}

YELLOW_TYPES == {"hard_accel", "hard_corner", "speed_violation"}

RED_TYPES_daily ==
    {"distraction", "cell_phone", "drowsiness", "close_following",
     "forward_collision_warning", "collision", "near_collision",
     "stop_sign_violation", "unsafe_lane_change", "lane_swerving"}

ORANGE_TYPES_daily ==
    {"hard_brake", "seat_belt_violation", "camera_obstruction", "smoking"}

YELLOW_TYPES_daily == {"hard_accel", "hard_corner", "speed_violation"}

\* Variant of _classify_tier: an unlisted type falls through to the last
\* tier tested instead of ORANGE.
_classify_tier_default_yellow(t) ==
    IF t \in RED_TYPES THEN "RED"
    ELSE IF t \in ORANGE_TYPES THEN "ORANGE"
    ELSE "YELLOW"

_classify_tier(t) ==
    IF t \in RED_TYPES THEN "RED"
    ELSE IF t \in ORANGE_TYPES THEN "ORANGE"
    ELSE IF t \in YELLOW_TYPES THEN "YELLOW"
    ELSE "ORANGE"

\* Variant of the daily _classify_tier: an unlisted type falls through to
\* the last tier tested instead of ORANGE.
_classify_tier_daily_default_yellow(t) ==
    IF t \in RED_TYPES_daily THEN "RED"
    ELSE IF t \in ORANGE_TYPES_daily THEN "ORANGE"
    ELSE "YELLOW"

_classify_tier_daily(t) ==
    IF t \in RED_TYPES_daily THEN "RED"
    ELSE IF t \in ORANGE_TYPES_daily THEN "ORANGE"
    ELSE IF t \in YELLOW_TYPES_daily THEN "YELLOW"
    ELSE "ORANGE"

\* The strings the classifier is applied to: every key and value of the two
\* synonym tables, the sentinel "unknown", and strings the tables never
\* mention (a raw spelling, the empty string, a tier name, an unseen type).
TypeStrings ==
    {"distraction", "distracted_driving", "driver_distraction",
     "cell_phone", "cell_phone_usage", "phone_use", "cellphone", "phone_usage",
     "drowsiness", "drowsy", "drowsy_driving", "fatigue", "driver_drowsiness",
     "close_following", "following_distance", "tailgating",
     "forward_collision_warning", "forward_collision", "fcw",
     "collision", "crash", "near_collision", "near_crash",
     "stop_sign_violation", "stop_sign", "ran_stop_sign",
     "unsafe_lane_change", "lane_change",
     "aggregated_lane_swerving", "lane_swerving", "lane_swerve",
     "hard_brake", "hard_braking", "harsh_brake", "harsh_braking",
     "seat_belt_violation", "seatbelt", "seatbelt_violation", "no_seatbelt",
     "seat_belt",
     "camera_obstruction", "obstruction", "camera_blocked",
     "driver_facing_cam_obstruction", "road_facing_cam_obstruction",
     "smoking", "vaping", "unsafe_parking",
     "hard_accel", "hard_acceleration", "harsh_acceleration",
     "rapid_acceleration",
     "hard_corner", "hard_cornering", "hard_turn", "harsh_cornering",
     "harsh_turn", "speed_violation", "speeding",
     "unknown", "", "Harsh Braking", "Collision", "collision ", "RED",
     "u_turn", "rolling_stop"}

\* event["tier"] = _classify_tier(event_type), in either script.
ClassifyTier ==
    /\ pc = "start"
    /\ \E s \in {"daily", "weekly"}, t \in TypeStrings :
          /\ src' = s
          /\ event_type' = t
          /\ tier' = IF s = "weekly" THEN _classify_tier(t)
                     ELSE _classify_tier_daily(t)
    /\ pc' = "classified"
    /\ UNCHANGED <<raw_event, enriched, camera_events, speeding_events,
                   kpa_incidents, red_flags, row, findings, categories,
                   status, assessments, assessment_analysis>>
    /\ UNCHANGED extVars

-----------------------------------------------------------------------------
(* Speeding events: km/h to mph and the speed tier *)

\* KMH_TO_MPH = 0.621371, in millionths.
KMH_TO_MPH == 621371

\* Python's "a or b" on numbers: a unless a is None or 0.
PyOr(a, b) == IF a # NoneNum /\ a # 0 THEN a ELSE b

\* round(kmh * KMH_TO_MPH, 1).  The argument is in tenths of km/h and the
\* result in tenths of mph: 1448 stands for 144.8 km/h and 900 for 90.0 mph.
\* No product kmh * 0.621371 of the model's range lies on a rounding tie.
to_mph(kmh) == (kmh * KMH_TO_MPH + 500000) \div 1000000

\* Variant of speed_tier: the absolute-speed override is missing.
speed_tier_no_absolute(overspeed, max_speed) ==
    IF overspeed >= 200 THEN "RED"
    ELSE IF overspeed >= 150 THEN "ORANGE"
    ELSE "YELLOW"

\* The tier of _enrich_speeding_event; speeds in tenths of mph.
speed_tier(overspeed, max_speed) ==
    IF overspeed >= 200 \/ max_speed >= 900 THEN "RED"
    ELSE IF overspeed >= 150 THEN "ORANGE"
    ELSE "YELLOW"

\* The tier of enrich_event (daily speeding report).
speed_tier_daily(overspeed, max_speed) ==
    IF overspeed >= 200 \/ max_speed >= 900 THEN "RED"
    ELSE IF overspeed >= 150 THEN "ORANGE"
    ELSE IF overspeed >= 100 THEN "YELLOW"
    ELSE "YELLOW"

\* The speed fields and the tier of _enrich_speeding_event(event, ...).
_enrich_speeding_event(event) ==
    LET max_speed_kmh == PyOr(PyOr(event.max_vehicle_speed,
                                   event.avg_vehicle_speed), 0)
        max_speed     == to_mph(max_speed_kmh)
        posted_kmh    == PyOr(event.min_posted_speed_limit_in_kph, 0)
        posted_speed  == to_mph(posted_kmh)
        over_kmh      == PyOr(PyOr(event.max_over_speed_in_kph,
                                   event.avg_over_speed_in_kph), 0)
        overspeed     == to_mph(over_kmh)
    IN  [speed |-> max_speed, posted_speed |-> posted_speed,
         overspeed |-> overspeed, tier |-> speed_tier(overspeed, max_speed)]

\* The speed fields and the tier of enrich_event(event, ...).
enrich_event_daily(event) ==
    LET max_speed_kmh == PyOr(PyOr(event.max_vehicle_speed,
                                   event.avg_vehicle_speed), 0)
        max_speed     == to_mph(max_speed_kmh)
        posted_kmh    == PyOr(event.min_posted_speed_limit_in_kph, 0)
        posted_speed  == to_mph(posted_kmh)
        over_kmh      == PyOr(PyOr(event.max_over_speed_in_kph,
                                   event.avg_over_speed_in_kph), 0)
        overspeed     == to_mph(over_kmh)
    IN  [speed |-> max_speed, posted_speed |-> posted_speed,
         overspeed |-> overspeed,
         tier |-> speed_tier_daily(overspeed, max_speed)]

\* Raw speeding events, speeds in tenths of km/h.  The values lie on both
\* sides of the cut points: 240/241 km/h-tenths give 14.9/15.0 mph,
\* 321/322 give 19.9/20.0 mph, 1447/1448 give 89.9/90.0 mph.
RawSpeedingEvents ==
    [max_vehicle_speed             : {NoneNum, 0, 965, 1447, 1448, 1449, 1600},
     avg_vehicle_speed             : {NoneNum, 800, 1500},
     min_posted_speed_limit_in_kph : {NoneNum, 1120},
     max_over_speed_in_kph         : {NoneNum, 0, 100, 240, 241, 242, 321, 322, 400},
     avg_over_speed_in_kph         : {NoneNum, 250, 330}]

\* One raw speeding event is enriched, by either script.
EnrichSpeeding ==
    /\ pc = "start"
    /\ \E s \in {"daily", "weekly"}, e \in RawSpeedingEvents :
          /\ src' = s
          /\ raw_event' = e
          /\ enriched' = IF s = "weekly" THEN _enrich_speeding_event(e)
                         ELSE enrich_event_daily(e)
    /\ pc' = "enriched"
    /\ UNCHANGED <<event_type, tier, camera_events, speeding_events,
                   kpa_incidents, red_flags, row, findings, categories,
                   status, assessments, assessment_analysis>>
    /\ UNCHANGED extVars

-----------------------------------------------------------------------------
(* Cross-source red flag drivers: analyze_red_flag_drivers *)

EVENT_SEVERITY_ORDER(t) ==
    CASE t = "collision" -> 1
      [] t = "near_collision" -> 2
      [] t = "forward_collision_warning" -> 3
      [] t = "distraction" -> 4
      [] t = "cell_phone" -> 5
      [] t = "drowsiness" -> 6
      [] t = "stop_sign_violation" -> 7
      [] t = "unsafe_lane_change" -> 8
      [] t = "lane_swerving" -> 8
      [] t = "close_following" -> 9
      [] t = "hard_brake" -> 10
      [] t = "seat_belt_violation" -> 11
      [] t = "camera_obstruction" -> 12
      [] t = "smoking" -> 13
      [] t = "unsafe_parking" -> 14
      [] t = "hard_accel" -> 15
      [] t = "hard_corner" -> 16
      [] t = "speed_violation" -> 17
      [] OTHER -> 50

\* Variant of _event_sort_key in which a type without rank sorts first.
_event_sort_key_unranked_first(event) ==
    LET tier_order == CASE event.tier = "RED" -> 0
                        [] event.tier = "ORANGE" -> 1
                        [] event.tier = "YELLOW" -> 2
                        [] OTHER -> 1
        severity == EVENT_SEVERITY_ORDER(event.event_type)
    IN  tier_order * 100 + (IF severity = 50 THEN 0 ELSE severity)

\* _event_sort_key(event) = (tier order, severity), as one number.
_event_sort_key(event) ==
    LET tier_order == CASE event.tier = "RED" -> 0
                        [] event.tier = "ORANGE" -> 1
                        [] event.tier = "YELLOW" -> 2
                        [] OTHER -> 1
    IN  tier_order * 100 + EVENT_SEVERITY_ORDER(event.event_type)

\* The distinct elements of s in the order of their first occurrence: the
\* key order of a dict filled by setdefault.
FirstOccurrences(s) ==
    LET firsts == {i \in 1..Len(s) : \A j \in 1..(i - 1) : s[j] # s[i]}
    IN  [k \in 1..Cardinality(firsts) |->
            s[CHOOSE i \in firsts :
                 Cardinality({j \in firsts : j < i}) = k - 1]]

\* evt[field] of the last event of evts where it is non-empty, else "".
RECURSIVE LastNonEmpty(_, _)
LastNonEmpty(evts, field) ==
    IF evts = <<>> THEN ""
    ELSE IF evts[Len(evts)][field] # "" THEN evts[Len(evts)][field]
         ELSE LastNonEmpty(SubSeq(evts, 1, Len(evts) - 1), field)

\* sorted(recs, key=lambda x: x["total"], reverse=True): stable, so records
\* of equal total keep their order.
RECURSIVE SortByTotalDesc(_)
SortByTotalDesc(recs) ==
    IF recs = <<>> THEN <<>>
    ELSE LET rest == SortByTotalDesc(Tail(recs))
             x    == Head(recs)
             \* x goes before the first record of rest with a total <= its own
             k    == Cardinality({i \in 1..Len(rest) : rest[i].total > x.total})
         IN  SubSeq(rest, 1, k) \o <<x>> \o SubSeq(rest, k + 1, Len(rest))

\* The five canned recommendations of _generate_action (the source's long
\* dash is written " - ").
ACTION_FATIGUE == "Pattern: fatigue - address scheduling and rest compliance"
ACTION_DISTRACTION == "Pattern: distraction - formal coaching required"
ACTION_SPEED == "Pattern: speed non-compliance - formal coaching required"
ACTION_MULTIPLE == "Multiple safety categories - supervisor meeting required"
ACTION_GENERIC == "Cross-source flags - safety rep to review and coach"

\* Variant of _generate_action: the distraction rule is tested before the
\* fatigue rule.
_generate_action_distraction_first(driver_data) ==
    LET cam_types == {driver_data.camera[i].event_type :
                         i \in 1..Len(driver_data.camera)}
    IN  IF cam_types \cap {"distraction", "cell_phone"} # {}
        THEN ACTION_DISTRACTION
        ELSE IF cam_types \cap {"drowsiness", "lane_swerving"} # {}
        THEN ACTION_FATIGUE
        ELSE IF Len(driver_data.speeding) >= 5
        THEN ACTION_SPEED
        ELSE IF Len(driver_data.camera) >= 3 /\ Len(driver_data.speeding) > 0
        THEN ACTION_MULTIPLE
        ELSE ACTION_GENERIC

_generate_action(driver_data) ==
    LET cam_types == {driver_data.camera[i].event_type :
                         i \in 1..Len(driver_data.camera)}
        fatigue_types == {"drowsiness", "lane_swerving"}
        distraction_types == {"distraction", "cell_phone"}
    IN  IF cam_types \cap fatigue_types # {}
        THEN ACTION_FATIGUE
        ELSE IF cam_types \cap distraction_types # {}
        THEN ACTION_DISTRACTION
        ELSE IF Len(driver_data.speeding) >= 5
        THEN ACTION_SPEED
        ELSE IF Len(driver_data.camera) >= 3 /\ Len(driver_data.speeding) > 0
        THEN ACTION_MULTIPLE
        ELSE ACTION_GENERIC

\* Variant of driver_names: the "Unknown" sentinel is not skipped.
driver_names_with_unknown(cam, spd) ==
    FirstOccurrences([i \in 1..Len(cam) |-> cam[i].driver]
                     \o [i \in 1..Len(spd) |-> spd[i].driver])

\* The keys of driver_data after the two filling loops: every driver of a
\* camera event, then of a speeding event, except "Unknown".
driver_names(cam, spd) ==
    FirstOccurrences(
        SelectSeq([i \in 1..Len(cam) |-> cam[i].driver]
                  \o [i \in 1..Len(spd) |-> spd[i].driver],
                  LAMBDA n : n # "Unknown"))

\* driver_data[name] after the two filling loops.  The kpa list is created
\* empty by setdefault and no statement appends to it.
driver_data(name, cam, spd) ==
    LET camera   == SelectSeq(cam, LAMBDA e : e.driver = name)
        speeding == SelectSeq(spd, LAMBDA e : e.driver = name)
    IN  [camera |-> camera, speeding |-> speeding, kpa |-> <<>>,
         vehicle |-> LastNonEmpty(camera \o speeding, "vehicle"),
         yard |-> LastNonEmpty(camera \o speeding, "yard")]

\* Variant of is_flagged: the camera threshold is 4 instead of 3.
is_flagged_camera_4(cam_count, spd_count, kpa_count) ==
    \/ cam_count > 0 /\ spd_count > 0
    \/ cam_count >= 4
    \/ spd_count >= 5
    \/ cam_count > 0 /\ kpa_count > 0

is_flagged(cam_count, spd_count, kpa_count) ==
    \/ cam_count > 0 /\ spd_count > 0
    \/ cam_count >= 3
    \/ spd_count >= 5
    \/ cam_count > 0 /\ kpa_count > 0

\* The record appended to flagged for one driver (the two summary strings,
\* display text built from the same lists, are left out).
flag_record(name, data) ==
    LET cam_count == Len(data.camera)
        spd_count == Len(data.speeding)
        kpa_count == Len(data.kpa)
    IN  [name |-> name, vehicle |-> data.vehicle, yard |-> data.yard,
         camera_count |-> cam_count, speeding_count |-> spd_count,
         kpa_count |-> kpa_count,
         total |-> cam_count + spd_count + kpa_count,
         action |-> _generate_action(data)]

analyze_red_flag_drivers(cam, spd, kpa) ==
    LET names == driver_names(cam, spd)
        datas == [i \in 1..Len(names) |-> driver_data(names[i], cam, spd)]
        idx   == SelectSeq([i \in 1..Len(names) |-> i],
                           LAMBDA i : is_flagged(Len(datas[i].camera),
                                                 Len(datas[i].speeding),
                                                 Len(datas[i].kpa)))
        flagged == [j \in 1..Len(idx) |-> flag_record(names[idx[j]], datas[idx[j]])]
    IN  SortByTotalDesc(flagged)

\* Bounds on the lengths of the three argument lists.
MaxCam == 4
MaxSpd == 5
MaxKpa == 1

\* An enriched camera event, with the fields the analysis reads.
CamEvt(d, v, y, t) ==
    [driver |-> d, vehicle |-> v, yard |-> y, event_type |-> t,
     tier |-> _classify_tier(t)]

\* Enriched camera events of two named drivers and of the sentinel.
CameraPool ==
    {CamEvt("Ann", "5010C", "Midland", "drowsiness"),
     CamEvt("Ann", "5010C", "Midland", "distraction"),
     CamEvt("Ann", "5010C", "Midland", "hard_brake"),
     CamEvt("Bob", "5022C", "", "lane_swerving"),
     CamEvt("Bob", "5022C", "", "cell_phone"),
     CamEvt("Unknown", "Unknown", "", "hard_brake")}

\* Enriched speeding events; all have the same overspeed (tenths of mph), so
\* every list of them is in the order get_speeding_events_weekly returns.
SpeedingPool ==
    {[driver |-> "Ann", vehicle |-> "5011C", yard |-> "", overspeed |-> 120],
     [driver |-> "Unknown", vehicle |-> "", yard |-> "Bryan", overspeed |-> 120]}

\* KPA incident rows, by the name of the employee involved.
KpaPool == {[name |-> "Ann"]}

\* get_camera_events_weekly returns sorted(filtered, key=_event_sort_key).
IsSortedByKey(evts) ==
    \A i \in 1..(Len(evts) - 1) :
        _event_sort_key(evts[i]) <= _event_sort_key(evts[i + 1])

CameraLists == {c \in SeqsUpTo(CameraPool, MaxCam) : IsSortedByKey(c)}

\* main: red_flags = analyze_red_flag_drivers(camera_events,
\* speeding_events, casing_incidents).
AnalyzeRedFlags ==
    /\ pc = "start"
    /\ \E cam \in CameraLists,
          spd \in SeqsUpTo(SpeedingPool, MaxSpd),
          kpa \in SeqsUpTo(KpaPool, MaxKpa) :
          /\ camera_events' = cam
          /\ speeding_events' = spd
          /\ kpa_incidents' = kpa
          /\ red_flags' = analyze_red_flag_drivers(cam, spd, kpa)
    /\ pc' = "analyzed"
    /\ UNCHANGED <<src, event_type, tier, raw_event, enriched, row, findings,
                   categories, status, assessments, assessment_analysis>>
    /\ UNCHANGED extVars

-----------------------------------------------------------------------------
(* Python string methods, on ASCII text and the blanks listed below *)

LowerOf ==
    [A |-> "a", B |-> "b", C |-> "c", D |-> "d", E |-> "e", F |-> "f",
     G |-> "g", H |-> "h", I |-> "i", J |-> "j", K |-> "k", L |-> "l",
     M |-> "m", N |-> "n", O |-> "o", P |-> "p", Q |-> "q", R |-> "r",
     S |-> "s", T |-> "t", U |-> "u", V |-> "v", W |-> "w", X |-> "x",
     Y |-> "y", Z |-> "z"]

Digits == {"0", "1", "2", "3", "4", "5", "6", "7", "8", "9"}
Letters == DOMAIN LowerOf \cup {LowerOf[c] : c \in DOMAIN LowerOf}
\* The characters str.strip() removes and \s of a pattern matches, among
\* those a string of this module can hold: space, tab, line feed, carriage
\* return, form feed, and the characters 0B, 1C, 1D, 1E, 1F, 85, A0 and
\* 1680, which stand unescaped between the quotes.  The blanks from 2000
\* upward cannot be written in a string here and are no input of the model.
Whitespace == {" ", "\t", "\n", "\r", "\f", "", "", "", "", "", "", " ", " "}

CharAt(s, i) == SubSeq(s, i, i)

\* s.lower()
RECURSIVE Lower(_)
Lower(s) ==
    IF s = "" THEN ""
    ELSE LET c == CharAt(s, 1)
         IN  (IF c \in DOMAIN LowerOf THEN LowerOf[c] ELSE c) \o Lower(Tail(s))

\* s.strip()
RECURSIVE LStrip(_)
LStrip(s) ==
    IF s # "" /\ CharAt(s, 1) \in Whitespace THEN LStrip(Tail(s)) ELSE s
RECURSIVE RStrip(_)
RStrip(s) ==
    IF s # "" /\ CharAt(s, Len(s)) \in Whitespace
    THEN RStrip(SubSeq(s, 1, Len(s) - 1)) ELSE s
Strip(s) == RStrip(LStrip(s))

\* p in s
Contains(s, p) ==
    \E i \in 1..(Len(s) - Len(p) + 1) : SubSeq(s, i, i + Len(p) - 1) = p

\* s.startswith(p)
StartsWith(s, p) == Len(p) <= Len(s) /\ SubSeq(s, 1, Len(p)) = p

\* s with every character of the set chars removed: chained s.replace(c, '')
RECURSIVE Remove(_, _)
Remove(s, chars) ==
    IF s = "" THEN ""
    ELSE (IF CharAt(s, 1) \in chars THEN "" ELSE CharAt(s, 1))
         \o Remove(Tail(s), chars)

\* s.isdigit() and s.isalnum(): false on the empty string
IsDigit(s) == s # "" /\ \A i \in 1..Len(s) : CharAt(s, i) \in Digits
IsAlnum(s) == s # "" /\ \A i \in 1..Len(s) : CharAt(s, i) \in Digits \cup Letters

\* any(kw in s for kw in kws)
AnyIn(kws, s) == \E i \in 1..Len(kws) : Contains(s, kws[i])

\* sum(1 for kw in kws if kw in s)
Score(kws, s) == Cardinality({i \in 1..Len(kws) : Contains(s, kws[i])})

-----------------------------------------------------------------------------
(* KPA field assessments: findings, category, status *)

_KPA_META_FIELDS ==
    {"Name", "created_at", "date", "form", "form_id", "id", "kpa_link",
     "link", "name", "observer", "report", "report number", "response_id",
     "status", "updated_at"}

_POSITIVE_PHRASES ==
    <<"no unsafe practices", "good hand placement", "good communication",
     "all good", "no issues", "doing a good job", "no findings", "good job",
     "no concerns", "satisfactory", "in compliance", "properly worn",
     "properly secured", "no deficiencies", "good housekeeping",
     "well maintained", "good condition", "no hazards", "no violations",
     "no corrective", "safe practices", "following procedure",
     "good practice", "proper hand placement", "no members placing",
     "keeping hands out of hazardous", "maintaining proper body positioning">>

_POSITIVE_PREFIXES ==
    <<"proper ", "no members ", "no unsafe ">>

_CORRECTIVE_KEYWORDS ==
    <<"corrected", "found", "issue", "should not", "replaced", "reminded",
     "had to", "violated", "failed", "missing", "damaged", "broken",
     "not worn", "not completed", "not following", "not in compliance",
     "improper", "unsafe", "need to", "needs", "disappointed", "hazard",
     "deficien", "violation", "incomplete", "expired">>

_FINDING_KEYWORDS ==
    <<"corrective", "corrected", "finding", "found", "hazard", "deficien",
     "violation", "issue", "damaged", "broken", "missing", "expired",
     "not completed", "not worn", "failed", "needs repair", "need to",
     "needs replacement", "out of date", "should not", "replaced",
     "disappointed", "no jsa", "no ppe", "not in compliance",
     "not following", "improper", "unsafe", "leak", "spill", "trip",
     "not secured", "unsecured", "obstruct", "crack", "worn", "frayed",
     "no fire", "no extinguisher", "no permit", "incomplete">>

_EQUIP_KEYWORDS ==
    <<"equipment", "vehicle", "truck", "trailer", "tire", "brake", "light",
     "engine", "hydraulic", "pump", "hose", "chain", "tool", "wrench",
     "damaged", "broken", "repair", "maintenance", "defect", "mechanical",
     "gauge", "pressure">>

_BEHAVIOR_KEYWORDS ==
    <<"ppe", "hard hat", "glasses", "gloves", "vest", "jsa", "procedure",
     "shortcut", "compliance", "not worn", "not completed", "not following",
     "behavior", "seatbelt", "cell phone", "speed", "horseplay", "training",
     "cert">>

_HOUSEKEEPING_KEYWORDS ==
    <<"housekeeping", "clean", "messy", "trip", "slip", "rigging", "spill",
     "debris", "clutter", "organized", "stacked", "stored", "site condition",
     "ground", "walk", "path", "access">>

_DOC_KEYWORDS ==
    <<"permit", "certification", "paperwork", "document", "expired",
     "inspection", "checklist", "log", "record", "sign", "posted", "label",
     "sds", "msds">>

YARD_ORDER ==
    <<"Midland", "Bryan", "Kilgore", "Hobbs", "Jourdanton", "Laredo",
     "San Angelo">>

_OBSERVER_TO_YARD ==
    <<<<"salazar", "Midland">>, <<"hancock", "Midland">>,
     <<"conrad", "Bryan">>, <<"barnett", "Kilgore">>, <<"batts", "Hobbs">>,
     <<"speyrer", "Jourdanton">>>>

_OBSERVER_TO_REP ==
    <<<<"salazar", "MICHAEL HANCOCK & MICHAEL SALAZAR">>,
     <<"hancock", "MICHAEL HANCOCK & MICHAEL SALAZAR">>,
     <<"conrad", "JUSTIN CONRAD">>, <<"barnett", "JAMES BARNETT (J.P.)">>,
     <<"batts", "ALLEN BATTS">>, <<"speyrer", "JOEY SPEYRER">>>>

\* A row is a csv.DictReader dict: its fields in column order, each a key
\* and a string value.
HasKey(r, key) == \E i \in 1..Len(r) : r[i].key = key

\* r.get(key, default)
RowGet(r, key, default) ==
    IF HasKey(r, key)
    THEN r[CHOOSE i \in 1..Len(r) : r[i].key = key].val
    ELSE default

\* Variant of keeps_field: a positive phrase no longer hides a value that
\* also holds a corrective keyword.
keeps_field_phrase_unless_corrective(key, val) ==
    LET key_lower    == Strip(Lower(key))
        val_stripped == Strip(val)
        val_lower    == Lower(val_stripped)
    IN  /\ val # ""
        /\ key_lower \notin {Lower(k) : k \in _KPA_META_FIELDS}
        /\ Len(val_stripped) >= 5
        /\ ~(Contains(val_lower, "http://") \/ Contains(val_lower, "https://"))
        /\ ~IsDigit(Remove(val_stripped, {".", "-", "/", ":", " "}))
        /\ ~(/\ Len(val_stripped) < 30
             /\ IsAlnum(Remove(val_stripped, {"_", "-"}))
             /\ ~Contains(val_stripped, " ")
             /\ ~AnyIn(_FINDING_KEYWORDS, val_lower))
        /\ val_lower \notin
              {"yes", "no", "n/a", "na", "pass", "ok", "good", "safe",
               "true", "false", "compliant", "satisfactory", "acceptable",
               "not applicable", "none", "no issues", "no findings",
               "casing", "csg", "brhas", "butch"}
        /\ ~(AnyIn(_POSITIVE_PHRASES, val_lower)
             /\ ~AnyIn(_CORRECTIVE_KEYWORDS, val_lower))
        /\ ~((\E i \in 1..Len(_POSITIVE_PREFIXES) :
                 StartsWith(val_lower, _POSITIVE_PREFIXES[i]))
             /\ ~AnyIn(_CORRECTIVE_KEYWORDS, val_lower))
        /\ key_lower \notin
              {"operator", "company", "division", "department", "location",
               "site", "yard", "area", "unit", "rig", "crew", "shift"}
        /\ AnyIn(_CORRECTIVE_KEYWORDS, val_lower)

\* The body of the loop of _extract_findings: whether the field (key, val)
\* passes every skip test and is appended to findings.
keeps_field(key, val) ==
    LET key_lower    == Strip(Lower(key))
        val_stripped == Strip(val)
        val_lower    == Lower(val_stripped)
    IN  /\ val # ""
        /\ key_lower \notin {Lower(k) : k \in _KPA_META_FIELDS}
        /\ Len(val_stripped) >= 5
        /\ ~(Contains(val_lower, "http://") \/ Contains(val_lower, "https://"))
        /\ ~IsDigit(Remove(val_stripped, {".", "-", "/", ":", " "}))
        /\ ~(/\ Len(val_stripped) < 30
             /\ IsAlnum(Remove(val_stripped, {"_", "-"}))
             /\ ~Contains(val_stripped, " ")
             /\ ~AnyIn(_FINDING_KEYWORDS, val_lower))
        /\ val_lower \notin
              {"yes", "no", "n/a", "na", "pass", "ok", "good", "safe",
               "true", "false", "compliant", "satisfactory", "acceptable",
               "not applicable", "none", "no issues", "no findings",
               "casing", "csg", "brhas", "butch"}
        /\ ~AnyIn(_POSITIVE_PHRASES, val_lower)
        /\ ~((\E i \in 1..Len(_POSITIVE_PREFIXES) :
                 StartsWith(val_lower, _POSITIVE_PREFIXES[i]))
             /\ ~AnyIn(_CORRECTIVE_KEYWORDS, val_lower))
        /\ key_lower \notin
              {"operator", "company", "division", "department", "location",
               "site", "yard", "area", "unit", "rig", "crew", "shift"}
        /\ AnyIn(_CORRECTIVE_KEYWORDS, val_lower)

\* _extract_findings(row): the stripped values of the fields kept, in
\* column order.
_extract_findings(r) ==
    LET kept == SelectSeq(r, LAMBDA f : keeps_field(f.key, f.val))
    IN  [i \in 1..Len(kept) |-> Strip(kept[i].val)]

CATEGORY_ORDER ==
    <<"EQUIPMENT/VEHICLE ISSUES", "BEHAVIORAL/COMPLIANCE",
      "HOUSEKEEPING/SITE CONDITIONS", "DOCUMENTATION">>

\* Variant of _categorize_finding: of several categories with the highest
\* score the last one, in the order of the dict, is returned.
_categorize_finding_last_max(text) ==
    LET text_lower == Lower(text)
        scores == <<Score(_EQUIP_KEYWORDS, text_lower),
                    Score(_BEHAVIOR_KEYWORDS, text_lower),
                    Score(_HOUSEKEEPING_KEYWORDS, text_lower),
                    Score(_DOC_KEYWORDS, text_lower)>>
        best == CHOOSE i \in 1..4 :
                   /\ \A j \in 1..4 : scores[j] <= scores[i]
                   /\ \A j \in (i + 1)..4 : scores[j] < scores[i]
    IN  IF scores[best] > 0 THEN CATEGORY_ORDER[best]
        ELSE "BEHAVIORAL/COMPLIANCE"

\* _categorize_finding(text): max(scores, key=scores.get) is the first
\* category, in the order of the dict, that has the highest score.
_categorize_finding(text) ==
    LET text_lower == Lower(text)
        scores == <<Score(_EQUIP_KEYWORDS, text_lower),
                    Score(_BEHAVIOR_KEYWORDS, text_lower),
                    Score(_HOUSEKEEPING_KEYWORDS, text_lower),
                    Score(_DOC_KEYWORDS, text_lower)>>
        best == CHOOSE i \in 1..4 :
                   /\ \A j \in 1..4 : scores[j] <= scores[i]
                   /\ \A j \in 1..(i - 1) : scores[j] < scores[i]
    IN  IF scores[best] > 0 THEN CATEGORY_ORDER[best]
        ELSE "BEHAVIORAL/COMPLIANCE"

\* The status a field value decides: None when it holds no status phrase.
field_status(val) ==
    LET val_lower == Strip(Lower(val))
    IN  IF val = "" THEN None
        ELSE IF Contains(val_lower, "corrected on site")
                \/ Contains(val_lower, "corrected on-site")
        THEN "Corrected on site"
        ELSE IF Contains(val_lower, "follow up")
                \/ Contains(val_lower, "follow-up")
                \/ Contains(val_lower, "requires follow")
        THEN "Requires follow-up"
        ELSE None

\* Variant of _get_assessment_status: the explicit status field is ignored.
_get_assessment_status_no_explicit(r) ==
    LET hits == SelectSeq(r, LAMBDA f : field_status(f.val) # None)
    IN  IF hits # <<>> THEN field_status(hits[1].val) ELSE "Open"

\* _get_assessment_status(row): the first field, in column order, that
\* holds a status phrase decides; else the status field; else Open.
_get_assessment_status(r) ==
    LET hits == SelectSeq(r, LAMBDA f : field_status(f.val) # None)
        status_field == Strip(RowGet(r, "status", ""))
    IN  IF hits # <<>> THEN field_status(hits[1].val)
        ELSE IF status_field # "" THEN status_field
        ELSE "Open"

\* Variant of categorize: a finding replaces the list of its category
\* (categorized[cat] = [f]) instead of being appended to it.
categorize_overwrite(fs) ==
    LET cats == FirstOccurrences([i \in 1..Len(fs) |-> _categorize_finding(fs[i])])
    IN  [k \in 1..Len(cats) |->
            [category |-> cats[k],
             findings |->
                LET own == SelectSeq(fs, LAMBDA f : _categorize_finding(f) = cats[k])
                IN  <<own[Len(own)]>>]]

\* categorized: for f in findings: categorized.setdefault(cat, []).append(f).
\* The dict's items in insertion order.
categorize(fs) ==
    LET cats == FirstOccurrences([i \in 1..Len(fs) |-> _categorize_finding(fs[i])])
    IN  [k \in 1..Len(cats) |->
            [category |-> cats[k],
             findings |-> SelectSeq(fs, LAMBDA f : _categorize_finding(f) = cats[k])]]

\* Bound on the number of fields of a row.
MaxFields == 2

Field(k, v) == [key |-> k, val |-> v]

\* Column names: two free-text columns, the metadata column status and the
\* organisational column yard.
FieldKeys == {"comments", "notes", "status", "yard"}

\* Cell texts: positive observations, alone and with a corrective keyword
\* appended, findings, status phrases, a status value, a yard, an empty
\* cell, a cell of a vertical tab and a form feed, and a finding between
\* the separator characters 1C and 1F.
FieldTexts ==
    {"Proper PPE was worn",
     "Proper PPE was worn" \o " found",
     "Good housekeeping",
     "Good housekeeping" \o " found",
     "Proper PPE was not worn, replaced on site",
     "Guard missing, corrected on site",
     "Needs follow up",
     "Closed",
     "Midland",
     "",
     "\f",
     "Trash found on floor"}

\* Rows of at most MaxFields columns with distinct names.
Rows ==
    {r \in SeqsUpTo({Field(k, v) : k \in FieldKeys, v \in FieldTexts}, MaxFields) :
        \A i, j \in 1..Len(r) : i # j => r[i].key # r[j].key}

\* One assessment row goes through _extract_findings; only a row with
\* findings goes on through the categorisation and _get_assessment_status,
\* a row without findings has neither categories nor a status computed.
AssessRow ==
    /\ pc = "start"
    /\ \E r \in Rows :
          /\ row' = r
          /\ findings' = _extract_findings(r)
          /\ IF _extract_findings(r) # <<>>
             THEN /\ categories' = categorize(_extract_findings(r))
                  /\ status' = _get_assessment_status(r)
             ELSE UNCHANGED <<categories, status>>
    /\ pc' = "row_assessed"
    /\ UNCHANGED <<src, event_type, tier, raw_event, enriched, camera_events,
                   speeding_events, kpa_incidents, red_flags, assessments,
                   assessment_analysis>>
    /\ UNCHANGED extVars

-----------------------------------------------------------------------------
(* weekly_casing_briefing.py: analyze_field_assessments *)

\* Python's `a or b` on strings.
StrOr(a, b) == IF a # "" THEN a ELSE b

\* _get_kpa_yard(row): the first yard of YARD_ORDER named in the yard field.
_get_kpa_yard(r) ==
    LET yard_field == StrOr(RowGet(r, "7vj2l992y7fwqhwz", ""),
                            StrOr(RowGet(r, "yard", ""),
                                  RowGet(r, "location", "")))
        hits == SelectSeq(YARD_ORDER,
                          LAMBDA y : Contains(Lower(yard_field), Lower(y)))
    IN  IF hits = <<>> THEN "" ELSE hits[1]

IsRealName(n) == n # "" /\ Lower(n) \notin {"unknown", "none", ""}

\* _get_assessment_observer(row): observer, then Name, then name.
_get_assessment_observer(r) ==
    LET observer == Strip(RowGet(r, "observer", ""))
        Name     == Strip(RowGet(r, "Name", ""))
        name     == Strip(RowGet(r, "name", ""))
    IN  IF IsRealName(observer) THEN observer
        ELSE IF IsRealName(Name) THEN Name
        ELSE IF IsRealName(name) THEN name
        ELSE "Unknown"

\* The value of the first pair of the table whose key occurs in the name.
FirstMatch(table, obs_lower, default) ==
    LET hits == SelectSeq(table, LAMBDA kv : Contains(obs_lower, kv[1]))
    IN  IF hits = <<>> THEN default ELSE hits[1][2]

_map_observer_to_yard(observer_name) ==
    IF observer_name = "" THEN ""
    ELSE FirstMatch(_OBSERVER_TO_YARD, Strip(Lower(observer_name)), "")

_map_observer_to_rep(observer_name) ==
    IF observer_name = "" THEN observer_name
    ELSE FirstMatch(_OBSERVER_TO_REP, Strip(Lower(observer_name)),
                    observer_name)

\* A Counter over the keys of a sequence, as a dict in insertion order.
CounterOf(keys) ==
    LET ks == FirstOccurrences(keys)
    IN  [i \in 1..Len(ks) |->
            [key |-> ks[i],
             count |-> Cardinality({j \in 1..Len(keys) : keys[j] = ks[i]})]]

assessment_yard(r) ==
    StrOr(StrOr(_get_kpa_yard(r),
                _map_observer_to_yard(_get_assessment_observer(r))),
          "Unknown")

finding_record(r) ==
    [yard       |-> assessment_yard(r),
     rep        |-> _get_assessment_observer(r),
     date       |-> RowGet(r, "date", "N/A"),
     report_num |-> RowGet(r, "report number", "N/A"),
     link       |-> RowGet(r, "kpa_link", ""),
     findings   |-> _extract_findings(r),
     categories |-> categorize(_extract_findings(r)),
     status     |-> _get_assessment_status(r),
     observer   |-> _get_assessment_observer(r)]

clean_record(r) ==
    [yard       |-> assessment_yard(r),
     date       |-> RowGet(r, "date", "N/A"),
     report_num |-> RowGet(r, "report number", "N/A")]

\* The branch of the loop body a row takes.
has_findings(r) == _extract_findings(r) # <<>>

analyze_field_assessments(rows) ==
    LET with == SelectSeq(rows, LAMBDA r : has_findings(r))
        rest == SelectSeq(rows, LAMBDA r : ~has_findings(r))
    IN  [with_findings |-> [i \in 1..Len(with) |-> finding_record(with[i])],
         clean         |-> [i \in 1..Len(rest) |-> clean_record(rest[i])],
         by_yard       |-> CounterOf([i \in 1..Len(rows) |->
                                         assessment_yard(rows[i])]),
         by_rep        |-> CounterOf([i \in 1..Len(rows) |->
                              _map_observer_to_rep(
                                  _get_assessment_observer(rows[i]))])]

\* At most MaxAssessments rows in one call.
MaxAssessments == 3

\* The assessment rows a call draws from: a clean one, one finding, two
\* findings of one category, the same text in two columns, the empty row,
\* and two findings of two categories in a row whose observer is a space
\* and a vertical tab and whose name ends in a form feed.
AssessmentPool ==
    {<<Field("observer", "Michael Salazar"), Field("date", "2026-02-10"),
       Field("report number", "101"), Field("comments", "Proper PPE was worn")>>,
     <<Field("observer", "Justin Conrad"), Field("report number", "102"),
       Field("kpa_link", "https://app.kpa.io/r/102"),
       Field("comments", "Guard missing, corrected on site")>>,
     <<Field("observer", "Unknown"), Field("yard", "Hobbs yard"),
       Field("comments", "Guard missing, corrected on site"),
       Field("notes", "Proper PPE was not worn, replaced on site")>>,
     <<Field("Name", "Allen Batts"), Field("comments", "Needs follow up"),
       Field("notes", "Needs follow up")>>,
     <<>>,
     <<Field("observer", " "), Field("name", "J. Speyrer\f"),
       Field("location", "San Angelo"),
       Field("comments", "Trash found on floor"),
       Field("notes", "Debris found near rig"), Field("status", "Closed")>>}

\* One call of analyze_field_assessments, as main makes it on the week's
\* assessment rows.
AnalyzeAssessments ==
    /\ pc = "start"
    /\ \E rows \in SeqsUpTo(AssessmentPool, MaxAssessments) :
          /\ assessments' = rows
          /\ assessment_analysis' = analyze_field_assessments(rows)
    /\ pc' = "assessed"
    /\ UNCHANGED <<src, event_type, tier, raw_event, enriched, camera_events,
                   speeding_events, kpa_incidents, red_flags, row, findings,
                   categories, status>>
    /\ UNCHANGED extVars

-----------------------------------------------------------------------------
(* weekly_casing_briefing.py: _categorize_finding on its own *)

\* At most MaxWords words in a finding text.
MaxWords == 3

\* Words of finding texts: one keyword of each category, a word that holds
\* a keyword of two categories ("cert" and "certification"), and a word
\* without keyword.
CategoryWords ==
    {"Truck", "gloves", "debris", "permit", "certification", "ok"}

RECURSIVE JoinWords(_)
JoinWords(ws) ==
    IF ws = <<>> THEN ""
    ELSE IF Len(ws) = 1 THEN ws[1]
    ELSE ws[1] \o " " \o JoinWords(Tail(ws))

FindingTexts == {JoinWords(ws) : ws \in SeqsUpTo(CategoryWords, MaxWords)}

\* One call of _categorize_finding, as analyze_field_assessments makes it
\* for each finding.
CategorizeFinding ==
    /\ pc = "start"
    /\ \E t \in FindingTexts :
          /\ finding_text' = t
          /\ category' = _categorize_finding(t)
    /\ pc' = "categorized"
    /\ UNCHANGED <<coreVars, weekVars, pipelineVars, kpaVars, enrichVars, divisionVars, normVars, offenderVars, scoreVars, recVars, distVars, nameVars>>

-----------------------------------------------------------------------------
(* Dates, times and the report window *)

\* A datetime is a record [day, sec]: day is the date's proleptic ordinal
\* (date.toordinal()), sec the second of the day.  date.weekday() is
\* 0 for Monday.
weekday(d) == (d + 6) % 7

SECONDS_PER_DAY == 86400

DateTime(d, h, m, s) == [day |-> d, sec |-> h * 3600 + m * 60 + s]

\* a <= b on datetimes of one time zone.
DtLeq(a, b) == a.day < b.day \/ (a.day = b.day /\ a.sec <= b.sec)

\* America/Chicago in 2026: daylight time from March 8, 08:00 UTC to
\* November 1, 07:00 UTC.
DST_START_2026 == DateTime(739683, 8, 0, 0)
DST_END_2026   == DateTime(739921, 7, 0, 0)

utcoffset_hours(utc) ==
    IF DtLeq(DST_START_2026, utc) /\ ~DtLeq(DST_END_2026, utc)
    THEN -5 ELSE -6

\* utc_dt.astimezone(CENTRAL_TZ)
astimezone_central(utc) ==
    LET local_sec == utc.sec + utcoffset_hours(utc) * 3600
    IN  IF local_sec < 0
        THEN [day |-> utc.day - 1, sec |-> local_sec + SECONDS_PER_DAY]
        ELSE [day |-> utc.day, sec |-> local_sec]

\* Variant of get_week_range: the Monday of the week that contains today.
get_week_range_this_week(now_utc_dt) ==
    LET today == astimezone_central(now_utc_dt).day
        last_monday == today - weekday(today)
        last_sunday == last_monday + 6
    IN  [start_ct |-> DateTime(last_monday, 0, 0, 0),
         end_ct |-> DateTime(last_sunday, 23, 59, 59),
         last_monday |-> last_monday, last_sunday |-> last_sunday]

\* get_week_range(), with the clock reading datetime.now(timezone.utc) as
\* its argument.
get_week_range(now_utc_dt) ==
    LET now_central == astimezone_central(now_utc_dt)
        today == now_central.day
        days_since_monday == weekday(today)
        last_monday == IF days_since_monday = 0
                       THEN today - 7
                       ELSE today - (days_since_monday + 7)
        last_sunday == last_monday + 6
    IN  [start_ct |-> DateTime(last_monday, 0, 0, 0),
         end_ct |-> DateTime(last_sunday, 23, 59, 59),
         last_monday |-> last_monday, last_sunday |-> last_sunday]

\* The clock readings: MaxDays consecutive UTC dates from Monday,
\* February 16, 2026 (the day of the docstring's example), at times on both
\* sides of local midnight in standard and in daylight time.
FIRST_DAY == 739663
MaxDays == 28

ClockTimes ==
    {DateTime(0, 0, 0, 0).sec, DateTime(0, 4, 59, 59).sec,
     DateTime(0, 5, 0, 0).sec, DateTime(0, 5, 59, 59).sec,
     DateTime(0, 6, 0, 0).sec, DateTime(0, 14, 30, 0).sec,
     DateTime(0, 23, 59, 59).sec}

ClockReadings ==
    {[day |-> d, sec |-> t] :
        d \in FIRST_DAY..(FIRST_DAY + MaxDays - 1), t \in ClockTimes}

\* main: start_ct, end_ct, start_date, end_date = get_week_range().
GetWeekRange ==
    /\ pc = "start"
    /\ \E n \in ClockReadings :
          /\ now_utc' = n
          /\ week_range' = get_week_range(n)
    /\ pc' = "week_computed"
    /\ UNCHANGED <<coreVars, categoryVars, pipelineVars, kpaVars, enrichVars, divisionVars, normVars, offenderVars, scoreVars, recVars, distVars, nameVars>>

-----------------------------------------------------------------------------
(* Raw vendor events and the vehicle and driver of an enriched event *)

\* A key that the raw JSON object does not have, and a key that holds null.
Missing == "<missing>"
Null == "<null>"

\* dict.get(key, default) on a raw field: the default replaces a missing key
\* only; null stays null.
GetOr(v, default) == IF v = Missing THEN default ELSE v

\* Truth of a string-valued raw field: missing (get without default gives
\* None), null and "" are false.
Truthy(v) == v \notin {Missing, Null, ""}

\* str(v) inside an f-string or str(): None prints as "None".
Str(v) == IF v = Null THEN "None" ELSE v

\* s.upper()
RECURSIVE Upper(_)
Upper(s) ==
    IF s = "" THEN ""
    ELSE LET c == CharAt(s, 1)
             up == {u \in DOMAIN LowerOf : LowerOf[u] = c}
         IN  (IF up # {} THEN CHOOSE u \in up : TRUE ELSE c) \o Upper(Tail(s))

\* s.lstrip(chars)
RECURSIVE LStripChars(_, _)
LStripChars(s, chars) ==
    IF s # "" /\ CharAt(s, 1) \in chars THEN LStripChars(Tail(s), chars) ELSE s

\* The position of the first space of s, 0 if it has none.
FirstSpace(s) ==
    IF Contains(s, " ")
    THEN CHOOSE i \in 1..Len(s) :
            CharAt(s, i) = " " /\ \A j \in 1..(i - 1) : CharAt(s, j) # " "
    ELSE 0

\* s.split(" ", 1)[0] and s.split(" ", 1)[1] (the latter for s with a space)
FirstToken(s) ==
    IF FirstSpace(s) = 0 THEN s ELSE SubSeq(s, 1, FirstSpace(s) - 1)
AfterFirstSpace(s) == SubSeq(s, FirstSpace(s) + 1, Len(s))

\* candidate.split(" ", 1)[1].strip().lstrip("- ")
DropFirstToken(s) == LStripChars(Strip(AfterFirstSpace(s)), {"-", " "})

\* The while loop of the name parser: tokens of digits and hyphens are
\* dropped from the front of the candidate.
RECURSIVE DropNumericTokens(_)
DropNumericTokens(candidate) ==
    IF candidate # "" /\ IsDigit(Remove(FirstToken(candidate), {"-"}))
    THEN IF Contains(candidate, " ")
         THEN DropNumericTokens(DropFirstToken(candidate))
         ELSE ""
    ELSE candidate

\* The name parsed out of the vehicle number, "" if there is none
\* ("5010C John Smith" -> "John Smith").
parse_driver_name(vehicle_number) ==
    IF ~Contains(vehicle_number, " ") THEN ""
    ELSE LET candidate == DropNumericTokens(DropFirstToken(vehicle_number))
         IN  IF Len(candidate) > 2
                /\ \E i \in 1..Len(candidate) : CharAt(candidate, i) \in Letters
             THEN candidate
             ELSE ""

-----------------------------------------------------------------------------
(* Canonical event types: _normalize_event_type *)

\* The value of the first pair of a table (a dict in insertion order) whose
\* key is k, or the default.
TableGet(table, k, default) ==
    LET hits == SelectSeq(table, LAMBDA kv : kv[1] = k)
    IN  IF hits = <<>> THEN default ELSE hits[1][2]

\* s.replace(a, b) for single characters a and b
RECURSIVE ReplaceChar(_, _, _)
ReplaceChar(s, a, b) ==
    IF s = "" THEN ""
    ELSE (IF CharAt(s, 1) = a THEN b ELSE CharAt(s, 1))
         \o ReplaceChar(Tail(s), a, b)

\* Variant of EVENT_TYPE_NORMALIZE in which one canonical name is itself a
\* synonym of another.
EVENT_TYPE_NORMALIZE_chained ==
    <<<<"distraction", "distraction">>,
      <<"aggregated_lane_swerving", "lane_swerving">>,
      <<"lane_swerving", "unsafe_lane_change">>,
      <<"unsafe_lane_change", "unsafe_lane_change">>,
      <<"hard_brake", "hard_brake">>, <<"harsh_braking", "hard_brake">>>>

EVENT_TYPE_NORMALIZE ==
    <<<<"distraction", "distraction">>,
      <<"distracted_driving", "distraction">>,
      <<"driver_distraction", "distraction">>,
      <<"cell_phone", "cell_phone">>, <<"cell_phone_usage", "cell_phone">>,
      <<"phone_use", "cell_phone">>, <<"cellphone", "cell_phone">>,
      <<"phone_usage", "cell_phone">>, <<"drowsiness", "drowsiness">>,
      <<"drowsy", "drowsiness">>, <<"drowsy_driving", "drowsiness">>,
      <<"fatigue", "drowsiness">>, <<"driver_drowsiness", "drowsiness">>,
      <<"close_following", "close_following">>,
      <<"following_distance", "close_following">>,
      <<"tailgating", "close_following">>,
      <<"forward_collision_warning", "forward_collision_warning">>,
      <<"forward_collision", "forward_collision_warning">>,
      <<"fcw", "forward_collision_warning">>, <<"collision", "collision">>,
      <<"crash", "collision">>, <<"near_collision", "near_collision">>,
      <<"near_crash", "near_collision">>,
      <<"stop_sign_violation", "stop_sign_violation">>,
      <<"stop_sign", "stop_sign_violation">>,
      <<"ran_stop_sign", "stop_sign_violation">>,
      <<"unsafe_lane_change", "unsafe_lane_change">>,
      <<"lane_change", "unsafe_lane_change">>,
      <<"aggregated_lane_swerving", "lane_swerving">>,
      <<"lane_swerving", "lane_swerving">>,
      <<"lane_swerve", "lane_swerving">>, <<"hard_brake", "hard_brake">>,
      <<"hard_braking", "hard_brake">>, <<"harsh_brake", "hard_brake">>,
      <<"harsh_braking", "hard_brake">>,
      <<"seat_belt_violation", "seat_belt_violation">>,
      <<"seatbelt", "seat_belt_violation">>,
      <<"seatbelt_violation", "seat_belt_violation">>,
      <<"no_seatbelt", "seat_belt_violation">>,
      <<"seat_belt", "seat_belt_violation">>,
      <<"camera_obstruction", "camera_obstruction">>,
      <<"obstruction", "camera_obstruction">>,
      <<"camera_blocked", "camera_obstruction">>,
      <<"driver_facing_cam_obstruction", "camera_obstruction">>,
      <<"road_facing_cam_obstruction", "camera_obstruction">>,
      <<"smoking", "smoking">>, <<"vaping", "smoking">>,
      <<"unsafe_parking", "unsafe_parking">>, <<"hard_accel", "hard_accel">>,
      <<"hard_acceleration", "hard_accel">>,
      <<"harsh_acceleration", "hard_accel">>,
      <<"rapid_acceleration", "hard_accel">>,
      <<"hard_corner", "hard_corner">>, <<"hard_cornering", "hard_corner">>,
      <<"hard_turn", "hard_corner">>, <<"harsh_cornering", "hard_corner">>,
      <<"harsh_turn", "hard_corner">>,
      <<"speed_violation", "speed_violation">>,
      <<"speeding", "speed_violation">>>>

EVENT_TYPE_NORMALIZE_daily ==
    <<<<"distraction", "distraction">>,
      <<"distracted_driving", "distraction">>,
      <<"driver_distraction", "distraction">>,
      <<"cell_phone", "cell_phone">>, <<"cell_phone_usage", "cell_phone">>,
      <<"phone_use", "cell_phone">>, <<"cellphone", "cell_phone">>,
      <<"phone_usage", "cell_phone">>, <<"drowsiness", "drowsiness">>,
      <<"drowsy", "drowsiness">>, <<"drowsy_driving", "drowsiness">>,
      <<"fatigue", "drowsiness">>, <<"driver_drowsiness", "drowsiness">>,
      <<"close_following", "close_following">>,
      <<"following_distance", "close_following">>,
      <<"tailgating", "close_following">>,
      <<"forward_collision_warning", "forward_collision_warning">>,
      <<"forward_collision", "forward_collision_warning">>,
      <<"fcw", "forward_collision_warning">>, <<"collision", "collision">>,
      <<"crash", "collision">>, <<"near_collision", "near_collision">>,
      <<"near_crash", "near_collision">>,
      <<"stop_sign_violation", "stop_sign_violation">>,
      <<"stop_sign", "stop_sign_violation">>,
      <<"ran_stop_sign", "stop_sign_violation">>,
      <<"unsafe_lane_change", "unsafe_lane_change">>,
      <<"lane_change", "unsafe_lane_change">>,
      <<"aggregated_lane_swerving", "lane_swerving">>,
      <<"lane_swerving", "lane_swerving">>,
      <<"lane_swerve", "lane_swerving">>, <<"hard_brake", "hard_brake">>,
      <<"hard_braking", "hard_brake">>, <<"harsh_brake", "hard_brake">>,
      <<"harsh_braking", "hard_brake">>,
      <<"seat_belt_violation", "seat_belt_violation">>,
      <<"seatbelt", "seat_belt_violation">>,
      <<"seatbelt_violation", "seat_belt_violation">>,
      <<"no_seatbelt", "seat_belt_violation">>,
      <<"seat_belt", "seat_belt_violation">>,
      <<"camera_obstruction", "camera_obstruction">>,
      <<"obstruction", "camera_obstruction">>,
      <<"camera_blocked", "camera_obstruction">>, <<"smoking", "smoking">>,
      <<"vaping", "smoking">>, <<"hard_accel", "hard_accel">>,
      <<"hard_acceleration", "hard_accel">>,
      <<"harsh_acceleration", "hard_accel">>,
      <<"rapid_acceleration", "hard_accel">>,
      <<"hard_corner", "hard_corner">>, <<"hard_cornering", "hard_corner">>,
      <<"hard_turn", "hard_corner">>, <<"harsh_cornering", "hard_corner">>,
      <<"harsh_turn", "hard_corner">>,
      <<"speed_violation", "speed_violation">>,
      <<"speeding", "speed_violation">>>>

\* raw_type.lower().strip().replace(" ", "_").replace("-", "_")
normalize_key(raw_type) ==
    ReplaceChar(ReplaceChar(Strip(Lower(raw_type)), " ", "_"), "-", "_")

\* _normalize_event_type(raw_type) of the weekly and of the daily script.
_normalize_event_type(raw_type) ==
    IF ~Truthy(raw_type) THEN "unknown"
    ELSE TableGet(EVENT_TYPE_NORMALIZE, normalize_key(raw_type),
                  normalize_key(raw_type))

_normalize_event_type_daily(raw_type) ==
    IF ~Truthy(raw_type) THEN "unknown"
    ELSE TableGet(EVENT_TYPE_NORMALIZE_daily, normalize_key(raw_type),
                  normalize_key(raw_type))

-----------------------------------------------------------------------------
(* daily_speeding_report.py: division and yard of a vehicle *)

VEHICLE_PREFIX_MAP ==
    <<<<"LL-RAT", "Rathole", "Levelland">>,
      <<"MID-RAT", "Rathole", "Midland">>, <<"WIN-RAT", "Rathole", "Ohio">>,
      <<"BAR-RAT", "Rathole", "Barstow">>,
      <<"JOU-RAT", "Rathole", "Jourdanton">>,
      <<"TOW-RAT", "Rathole", "Pennsylvania">>,
      <<"OK-RAT", "Rathole", "Oklahoma">>, <<"DS-RAT", "Rathole", "">>,
      <<"BTI-", "Butch's Trucking", "">>,
      <<"VAL-", "Valor Energy Services", "">>,
      <<"TD-", "Transcend Drilling", "">>, <<"POL-", "Poly Pipe", "">>,
      <<"ENV-", "Environmental", "">>, <<"FEN-", "Fencing", "">>,
      <<"ANC-", "Anchors", "">>, <<"PIT-", "Pit Lining", "">>,
      <<"CON-", "Construction", "">>, <<"SALES", "Sales/Admin", "">>>>

SALES_ADMIN_VEHICLES == {"Safety WIN-RAT-2529 Sean Fry"}

\* The word characters of a regular expression.
WordChars == Letters \cup Digits \cup {"_"}

\* _CASING_RE.match(vn): digits, then C, then a word boundary.
_CASING_RE_match(vn) ==
    \E k \in 1..(Len(vn) - 1) :
        /\ IsDigit(SubSeq(vn, 1, k))
        /\ CharAt(vn, k + 1) = "C"
        /\ Len(vn) = k + 1 \/ CharAt(vn, k + 2) \notin WordChars

\* _division_from_prefix(vehicle_number)
_division_from_prefix(vehicle_number) ==
    LET vn == Upper(vehicle_number)
        hits == SelectSeq(VEHICLE_PREFIX_MAP,
                          LAMBDA p : StartsWith(vn, Upper(p[1])))
    IN  IF vehicle_number \in SALES_ADMIN_VEHICLES THEN <<"Sales/Admin", "">>
        ELSE IF Contains(vn, "SHAWNEE") THEN <<"Rathole", "Oklahoma">>
        ELSE IF hits # <<>> THEN <<hits[1][2], hits[1][3]>>
        ELSE IF _CASING_RE_match(vn) THEN <<"Casing", "">>
        ELSE <<"Unassigned", "">>

\* A lookup map (a dict from vehicle number to a value) is a function on
\* its keys.  d.get(k) of a key that is missing or null is None.
HasEntry(d, k) == k \in DOMAIN d

\* Variant of division_yard: the group lookup is asked before the
\* Sales/Admin override.
division_yard_groups_first(vehicle_number, vehicle_groups) ==
    IF HasEntry(vehicle_groups, vehicle_number)
       /\ vehicle_groups[vehicle_number] # <<>>
    THEN vehicle_groups[vehicle_number]
    ELSE _division_from_prefix(vehicle_number)

\* The division and yard steps of enrich_event: the Sales/Admin override,
\* the group lookup (an empty entry counts as none), then the prefix rules.
division_yard(vehicle_number, vehicle_groups) ==
    IF vehicle_number \in SALES_ADMIN_VEHICLES THEN <<"Sales/Admin", "">>
    ELSE IF HasEntry(vehicle_groups, vehicle_number)
            /\ vehicle_groups[vehicle_number] # <<>>
    THEN vehicle_groups[vehicle_number]
    ELSE _division_from_prefix(vehicle_number)

-----------------------------------------------------------------------------
(* The enrich functions: vehicle, driver, yard, speed and location *)

\* A raw event is a record of raw fields.  Its vehicle field is
\* [tag, number]: tag "dict" for a JSON object (number is its "number",
\* which may be Missing or Null), "str" for a value that is no object
\* (number is str(value)), "null", or "missing" when the event has no such
\* key.  Its driver field is [tag, first_name, last_name] in the same way.
Vehicle(tag, number) == [tag |-> tag, number |-> number]
Driver(tag, first, last) == [tag |-> tag, first_name |-> first, last_name |-> last]

\* A numeric raw field that holds a string instead of a number.
NotANumber == -2

\* The outcome of a call that raises.
Raised(error) == [raised |-> TRUE, error |-> error]

\* vehicle_number of the speeding enrich functions: str(vehicle_obj) for a
\* vehicle that is no dict.
vehicle_number_speeding(v) ==
    CASE v.tag = "dict"    -> GetOr(v.number, "Unknown")
      [] v.tag = "missing" -> "Unknown"
      [] v.tag = "null"    -> "None"
      [] OTHER             -> v.number

\* vehicle_number of the camera enrich functions: a falsy vehicle that is
\* no dict gives "Unknown".
vehicle_number_camera(v) ==
    CASE v.tag = "dict"    -> GetOr(v.number, "Unknown")
      [] v.tag = "missing" -> "Unknown"
      [] v.tag = "null"    -> "Unknown"
      [] OTHER             -> IF v.number # "" THEN v.number ELSE "Unknown"

\* The name of the embedded driver object, "" if it gives none:
\* f"{drv.get('first_name', '')} {drv.get('last_name', '')}".strip() for a
\* non-empty dict.
embedded_driver_name(drv) ==
    IF drv.tag = "dict" /\ ~(drv.first_name = Missing /\ drv.last_name = Missing)
    THEN Strip(Str(GetOr(drv.first_name, "")) \o " "
               \o Str(GetOr(drv.last_name, "")))
    ELSE ""

\* The name of the lookup map, "" if it gives none.
lookup_driver_name(vehicle_number, vehicle_drivers) ==
    IF HasEntry(vehicle_drivers, vehicle_number)
       /\ Truthy(vehicle_drivers[vehicle_number])
    THEN vehicle_drivers[vehicle_number]
    ELSE ""

RAISES == "<raises>"

\* The driver steps shared by the four enrich functions: lookup map, then
\* embedded driver, then the vehicle number, then "Unknown".  With a null
\* vehicle number the test `" " in vehicle_number` raises TypeError.
resolve_driver_name(vehicle_number, drv, vehicle_drivers) ==
    IF lookup_driver_name(vehicle_number, vehicle_drivers) # ""
    THEN lookup_driver_name(vehicle_number, vehicle_drivers)
    ELSE IF embedded_driver_name(drv) # ""
    THEN embedded_driver_name(drv)
    ELSE IF vehicle_number = Null THEN RAISES
    ELSE IF parse_driver_name(vehicle_number) # ""
    THEN parse_driver_name(vehicle_number)
    ELSE "Unknown"

\* yard = vehicle_yards.get(vehicle_number, "")
lookup_yard(vehicle_number, vehicle_yards) ==
    IF HasEntry(vehicle_yards, vehicle_number)
    THEN vehicle_yards[vehicle_number] ELSE ""

\* The speed fields of a raw speeding event.
SpeedFields(evt) ==
    [max_vehicle_speed |-> evt.max_vehicle_speed,
     avg_vehicle_speed |-> evt.avg_vehicle_speed,
     min_posted_speed_limit_in_kph |-> evt.min_posted_speed_limit_in_kph,
     max_over_speed_in_kph |-> evt.max_over_speed_in_kph,
     avg_over_speed_in_kph |-> evt.avg_over_speed_in_kph]

\* A string among the speeds that `a or b or 0` selects makes
\* `kmh * KMH_TO_MPH` raise TypeError.
speed_raises(evt) ==
    \/ PyOr(PyOr(evt.max_vehicle_speed, evt.avg_vehicle_speed), 0) = NotANumber
    \/ PyOr(evt.min_posted_speed_limit_in_kph, 0) = NotANumber
    \/ PyOr(PyOr(evt.max_over_speed_in_kph, evt.avg_over_speed_in_kph), 0)
          = NotANumber

\* lat and lon: a coordinate is truthy unless null, missing or 0.
Located(evt) ==
    /\ evt.lat \notin {NoneNum, 0}
    /\ evt.lon \notin {NoneNum, 0}

\* f"{lat:.4f}, {lon:.4f}" raises ValueError for a string.
location_raises(evt) ==
    Located(evt) /\ (evt.lat = NotANumber \/ evt.lon = NotANumber)

\* _enrich_speeding_event(event, vehicle_drivers, vehicle_yards) of the
\* weekly script, with vehicle, driver, yard and map link.
_enrich_speeding_event_full(evt, vehicle_drivers, vehicle_yards) ==
    LET vehicle_number == vehicle_number_speeding(evt.vehicle)
        driver_name == resolve_driver_name(vehicle_number, evt.driver,
                                           vehicle_drivers)
        speeds == _enrich_speeding_event(SpeedFields(evt))
    IN  IF speed_raises(evt) THEN Raised("TypeError")
        ELSE IF driver_name = RAISES THEN Raised("TypeError")
        ELSE [raised |-> FALSE, driver |-> driver_name,
              vehicle |-> vehicle_number,
              speed |-> speeds.speed, posted_speed |-> speeds.posted_speed,
              overspeed |-> speeds.overspeed, tier |-> speeds.tier,
              yard |-> lookup_yard(vehicle_number, vehicle_yards),
              located |-> Located(evt)]

\* enrich_event(event, vehicle_drivers, vehicle_groups) of the daily
\* speeding script.  _division_from_prefix raises AttributeError on a null
\* vehicle number.
enrich_event(evt, vehicle_drivers, vehicle_groups) ==
    LET vehicle_number == vehicle_number_speeding(evt.vehicle)
        driver_name == resolve_driver_name(vehicle_number, evt.driver,
                                           vehicle_drivers)
        speeds == enrich_event_daily(SpeedFields(evt))
    IN  IF speed_raises(evt) THEN Raised("TypeError")
        ELSE IF driver_name = RAISES THEN Raised("TypeError")
        ELSE IF vehicle_number = Null THEN Raised("AttributeError")
        ELSE IF location_raises(evt) THEN Raised("ValueError")
        ELSE [raised |-> FALSE, driver |-> driver_name,
              vehicle |-> vehicle_number,
              speed |-> speeds.speed, posted_speed |-> speeds.posted_speed,
              overspeed |-> speeds.overspeed, tier |-> speeds.tier,
              division |-> division_yard(vehicle_number, vehicle_groups)[1],
              yard |-> division_yard(vehicle_number, vehicle_groups)[2],
              located |-> Located(evt)]

\* speed_mph of the camera enrich functions: float(speed_kmh) inside a
\* try, so a string that is no number gives 0.
camera_speed(evt) ==
    LET speed_kmh == PyOr(PyOr(PyOr(evt.start_speed, evt.max_speed),
                               evt.end_speed), 0)
    IN  IF speed_kmh = NotANumber THEN 0 ELSE to_mph(speed_kmh)

\* _enrich_camera_event(event, vehicle_drivers, vehicle_yards, raw_type) of
\* the weekly script.
_enrich_camera_event(evt, vehicle_drivers, vehicle_yards, raw_type) ==
    LET vehicle_number == vehicle_number_camera(evt.vehicle)
        driver_name == resolve_driver_name(vehicle_number, evt.driver,
                                           vehicle_drivers)
    IN  IF driver_name = RAISES THEN Raised("TypeError")
        ELSE [raised |-> FALSE, driver |-> driver_name,
              vehicle |-> vehicle_number,
              event_type |-> _normalize_event_type(raw_type),
              raw_type |-> raw_type,
              tier |-> _classify_tier(_normalize_event_type(raw_type)),
              speed |-> camera_speed(evt),
              yard |-> lookup_yard(vehicle_number, vehicle_yards)]

\* enrich_camera_event(event, vehicle_drivers, vehicle_yards, raw_type) of
\* the daily camera script.
enrich_camera_event(evt, vehicle_drivers, vehicle_yards, raw_type) ==
    LET vehicle_number == vehicle_number_camera(evt.vehicle)
        driver_name == resolve_driver_name(vehicle_number, evt.driver,
                                           vehicle_drivers)
    IN  IF driver_name = RAISES THEN Raised("TypeError")
        ELSE IF location_raises(evt) THEN Raised("ValueError")
        ELSE [raised |-> FALSE, driver |-> driver_name,
              vehicle |-> vehicle_number,
              event_type |-> _normalize_event_type_daily(raw_type),
              raw_type |-> raw_type,
              tier |-> _classify_tier_daily(
                          _normalize_event_type_daily(raw_type)),
              speed |-> camera_speed(evt),
              yard |-> lookup_yard(vehicle_number, vehicle_yards),
              located |-> Located(evt)]

-----------------------------------------------------------------------------
(* Vendor timestamps: datetime.fromisoformat(s.replace("Z", "+00:00")) *)

\* s.replace("Z", "+00:00")
RECURSIVE ReplaceZ(_)
ReplaceZ(s) ==
    IF s = "" THEN ""
    ELSE (IF CharAt(s, 1) = "Z" THEN "+00:00" ELSE CharAt(s, 1))
         \o ReplaceZ(Tail(s))

DigitValue(c) ==
    CASE c = "0" -> 0 [] c = "1" -> 1 [] c = "2" -> 2 [] c = "3" -> 3
      [] c = "4" -> 4 [] c = "5" -> 5 [] c = "6" -> 6 [] c = "7" -> 7
      [] c = "8" -> 8 [] OTHER -> 9

\* int(s) for a string of digits
RECURSIVE ToInt(_)
ToInt(s) ==
    IF s = "" THEN 0
    ELSE ToInt(SubSeq(s, 1, Len(s) - 1)) * 10 + DigitValue(CharAt(s, Len(s)))

IsLeap(y) == y % 4 = 0 /\ (y % 100 # 0 \/ y % 400 = 0)

DaysInMonth(y, m) ==
    IF m = 2 THEN (IF IsLeap(y) THEN 29 ELSE 28)
    ELSE IF m \in {4, 6, 9, 11} THEN 30 ELSE 31

RECURSIVE DaysBeforeMonth(_, _)
DaysBeforeMonth(y, m) ==
    IF m = 1 THEN 0 ELSE DaysBeforeMonth(y, m - 1) + DaysInMonth(y, m - 1)

\* date(y, m, d).toordinal()
Ordinal(y, m, d) ==
    LET p == y - 1
    IN  p * 365 + p \div 4 - p \div 100 + p \div 400
        + DaysBeforeMonth(y, m) + d

\* The character of s at the 0-based position p, "" past its end (the
\* terminator the C parser reads).
At(s, p) == IF p >= 0 /\ p < Len(s) THEN CharAt(s, p + 1) ELSE ""

\* parse_digits: the value of the k characters of s from position p when
\* all are digits, -1 otherwise.
ParseDigits(s, p, k) ==
    IF k = 0 THEN 0
    ELSE IF p + k <= Len(s) /\ IsDigit(SubSeq(s, p + 1, p + k))
    THEN ToInt(SubSeq(s, p + 1, p + k))
    ELSE -1

\* The number of digits of s in a row from position p.
RECURSIVE DigitRun(_, _)
DigitRun(s, p) == IF At(s, p) \in Digits THEN 1 + DigitRun(s, p + 1) ELSE 0

\* _find_isoformat_datetime_separator: the position of the character
\* between date and time in a text of 7 or more characters, -1 when it
\* raises.
find_isoformat_datetime_separator(s) ==
    LET n == Len(s)
    IN  IF n = 7 THEN 7
        ELSE IF At(s, 4) = "-"
        THEN IF At(s, 5) = "W"
             THEN IF n > 8 /\ At(s, 8) = "-"
                  THEN IF n = 9 THEN -1
                       ELSE IF n > 10 /\ At(s, 10) \in Digits THEN 8
                       ELSE 10
                  ELSE 8
             ELSE 10
        ELSE IF At(s, 4) = "W"
        THEN LET idx == 7 + DigitRun(s, 7)
             IN  IF idx < 9 THEN idx
                 ELSE IF idx % 2 = 0 THEN 7 ELSE 8
        ELSE 8

MAX_ORDINAL == 3652059

\* The ordinal of the Monday of ISO week 1 of the year y.
iso_week1_monday(y) ==
    LET first_day == Ordinal(y, 1, 1)
        first_weekday == (first_day + 6) % 7
        week1_monday == first_day - first_weekday
    IN  IF first_weekday > 3 THEN week1_monday + 7 ELSE week1_monday

\* parse_isoformat_date on the first n characters of s, with the range
\* checks of the date constructor: the ordinal of the day, -1 when the
\* text is no date. YYYY-MM-DD, YYYYMMDD and the week dates YYYY-Www[-D],
\* YYYYWww[D] are dates.
parse_isoformat_date(s, n) ==
    LET y == ParseDigits(s, 0, 4)
        uses_separator == At(s, 4) = "-"
        p == IF uses_separator THEN 5 ELSE 4
    IN  IF y < 0 THEN -1
        ELSE IF At(s, p) = "W"
        THEN LET iso_week == ParseDigits(s, p + 1, 2)
                 q == p + 3
                 has_day == q < n
                 day_at == IF uses_separator THEN q + 1 ELSE q
                 iso_day == IF has_day THEN ParseDigits(s, day_at, 1) ELSE 1
                 first_weekday == (Ordinal(y, 1, 1) + 6) % 7
                 long_year == \/ first_weekday = 3
                              \/ (first_weekday = 2 /\ IsLeap(y))
                 ord_day == iso_week1_monday(y) + (iso_week - 1) * 7
                            + iso_day - 1
             IN  IF /\ iso_week >= 0
                    /\ (has_day /\ uses_separator) => At(s, q) = "-"
                    /\ iso_day >= 0
                    /\ (iso_week \in 1..52 \/ (iso_week = 53 /\ long_year))
                    /\ iso_day \in 1..7
                    /\ y \in 1..9999
                    /\ ord_day \in 1..MAX_ORDINAL
                 THEN ord_day
                 ELSE -1
        ELSE LET mo == ParseDigits(s, p, 2)
                 q == p + 2
                 day_at == IF uses_separator THEN q + 1 ELSE q
                 d == ParseDigits(s, day_at, 2)
             IN  IF /\ mo >= 0
                    /\ uses_separator => At(s, q) = "-"
                    /\ d >= 0
                    /\ y \in 1..9999 /\ mo \in 1..12
                    /\ d \in 1..DaysInMonth(y, mo)
                 THEN Ordinal(y, mo, d)
                 ELSE -1

HmsFailed == [ok |-> FALSE]

\* The fraction of parse_hh_mm_ss_ff: up to six digits from position p of
\* the part of s that ends before position e; further digits are skipped.
\* rest tells whether a character is left behind them.
hh_mm_ss_fraction(s, e, p, comps) ==
    LET len_remains == e - p
        to_parse == IF len_remains >= 6 THEN 6 ELSE len_remains
        v == ParseDigits(s, p, to_parse)
        correction == <<100000, 10000, 1000, 100, 10, 1>>
        q == p + to_parse + DigitRun(s, p + to_parse)
    IN  IF v < 0 THEN HmsFailed
        ELSE [ok |-> TRUE, rest |-> At(s, q) # "",
              comps |-> comps, us |-> v * correction[to_parse]]

\* The loop of parse_hh_mm_ss_ff over hour, minute and second (i = 0, 1, 2):
\* hh_mm_ss_loop reads the two digits of the component, hh_mm_ss_next
\* the character behind them.
RECURSIVE hh_mm_ss_loop(_, _, _, _, _, _)
RECURSIVE hh_mm_ss_next(_, _, _, _, _, _)
hh_mm_ss_next(s, e, i, p, has_separator, vals) ==
    LET c == At(s, p + 2)
        q == p + 3
    IN  IF vals[i + 1] < 0 THEN HmsFailed
        ELSE IF q >= e
        THEN [ok |-> TRUE, rest |-> c # "", comps |-> vals, us |-> 0]
        ELSE IF has_separator /\ c = ":"
        THEN IF i = 2 THEN hh_mm_ss_fraction(s, e, q, vals)
             ELSE hh_mm_ss_loop(s, e, i + 1, q, has_separator, vals)
        ELSE IF c \in {".", ","} THEN hh_mm_ss_fraction(s, e, q, vals)
        ELSE IF ~has_separator
        THEN IF i = 2 THEN hh_mm_ss_fraction(s, e, q - 1, vals)
             ELSE hh_mm_ss_loop(s, e, i + 1, q - 1, has_separator, vals)
        ELSE HmsFailed

hh_mm_ss_loop(s, e, i, p, has_separator, comps) ==
    hh_mm_ss_next(s, e, i, p,
                  IF i = 0 THEN At(s, p + 2) = ":" ELSE has_separator,
                  [comps EXCEPT ![i + 1] = ParseDigits(s, p, 2)])

\* parse_hh_mm_ss_ff on the part of s from position b to before position e.
parse_hh_mm_ss_ff(s, b, e) == hh_mm_ss_loop(s, e, 0, b, TRUE, <<0, 0, 0>>)

IsoFailed == [ok |-> FALSE]

\* The position of the first of Z, + and - in s from position b on, the
\* length of s when there is none.
tzinfo_pos_of(s, b) ==
    LET zone_at == {i \in b..(Len(s) - 1) : At(s, i) \in {"Z", "+", "-"}}
    IN  IF zone_at = {} THEN Len(s)
        ELSE CHOOSE i \in zone_at : \A j \in zone_at : i <= j

\* The end of parse_isoformat_time: t is the parsed time of day and z the
\* parsed offset behind the sign at tzinfo_pos. An offset of zero seconds
\* is UTC whatever its fraction.
isoformat_time_of(s, tzinfo_pos, t, z) ==
    IF ~t.ok THEN IsoFailed
    ELSE IF tzinfo_pos >= Len(s)
    THEN IF t.rest THEN IsoFailed
         ELSE [ok |-> TRUE, comps |-> t.comps, us |-> t.us,
               aware |-> FALSE, tzoffset |-> 0, tzmicrosecond |-> 0]
    ELSE IF At(s, tzinfo_pos) = "Z"
    THEN IF tzinfo_pos + 1 # Len(s) THEN IsoFailed
         ELSE [ok |-> TRUE, comps |-> t.comps, us |-> t.us,
               aware |-> TRUE, tzoffset |-> 0, tzmicrosecond |-> 0]
    ELSE IF ~z.ok THEN IsoFailed
    ELSE IF z.rest THEN IsoFailed
    ELSE LET tzsign == IF At(s, tzinfo_pos) = "-" THEN -1 ELSE 1
             tzoffset == z.comps[1] * 3600 + z.comps[2] * 60 + z.comps[3]
         IN  [ok |-> TRUE, comps |-> t.comps, us |-> t.us, aware |-> TRUE,
              tzoffset |-> tzsign * tzoffset,
              tzmicrosecond |-> IF tzoffset = 0 THEN 0 ELSE tzsign * z.us]

\* parse_isoformat_time on s from position b, the zone from tzinfo_pos.
parse_isoformat_time_at(s, b, tzinfo_pos) ==
    isoformat_time_of(s, tzinfo_pos, parse_hh_mm_ss_ff(s, b, tzinfo_pos),
                      parse_hh_mm_ss_ff(s, tzinfo_pos + 1, Len(s)))

\* parse_isoformat_time on s from position b: the time of day and, when
\* the text has a zone, the offset from UTC in seconds and microseconds.
parse_isoformat_time(s, b) ==
    parse_isoformat_time_at(s, b, tzinfo_pos_of(s, b))

\* The end of fromisoformat: day is the parsed date and t the parsed time.
\* The timezone of an offset of a day or more raises, as does the datetime
\* of a time of day out of range.
isoformat_datetime_of(day, t) ==
    IF day < 0 THEN IsoFailed
    ELSE IF ~t.ok THEN IsoFailed
    ELSE IF t.tzoffset >= SECONDS_PER_DAY \/ t.tzoffset <= 0 - SECONDS_PER_DAY
    THEN IsoFailed
    ELSE IF t.comps[1] > 23 \/ t.comps[2] > 59 \/ t.comps[3] > 59
    THEN IsoFailed
    ELSE [ok |-> TRUE, day |-> day,
          sec |-> t.comps[1] * 3600 + t.comps[2] * 60 + t.comps[3],
          us |-> t.us, aware |-> t.aware, tzoffset |-> t.tzoffset,
          tzmicrosecond |-> t.tzmicrosecond]

\* fromisoformat on a text of 7 or more characters with the date ending
\* before separator_location.
fromisoformat_at(s, separator_location) ==
    IF separator_location < 0 THEN IsoFailed
    ELSE isoformat_datetime_of(
            parse_isoformat_date(s, separator_location),
            IF Len(s) > separator_location
            THEN parse_isoformat_time(s, separator_location + 1)
            ELSE [ok |-> TRUE, comps |-> <<0, 0, 0>>, us |-> 0,
                  aware |-> FALSE, tzoffset |-> 0, tzmicrosecond |-> 0])

\* datetime.fromisoformat(s) of Python 3.11 on an ASCII text: IsoFailed
\* when it raises; else the ordinal of the date, the time of day, and for a
\* text with a zone the offset.
fromisoformat(s) ==
    IF Len(s) < 7 THEN IsoFailed
    ELSE fromisoformat_at(s, find_isoformat_datetime_separator(s))

\* The outcome of the parse: [ok |-> FALSE] when fromisoformat, the call
\* of replace on a value that is no string, or astimezone raises; else the
\* UTC datetime and its microsecond.
ParseFailed == [ok |-> FALSE]

\* The first second of year 1 that America/Chicago can show: local mean
\* time is 5:50:36 behind UTC.
CENTRAL_LMT_SECONDS == 21036

\* The UTC time astimezone starts from for the parsed datetime d: a text
\* with a zone is moved to UTC by its offset; a text without zone is taken
\* for the local time of the machine, which runs on UTC. ParseFailed when
\* astimezone raises because the UTC or the Central time leaves the years
\* 1 to 9999.
utc_of(d) ==
    IF ~d.ok THEN ParseFailed
    ELSE IF ~d.aware
    THEN IF d.day < 2 THEN ParseFailed
         ELSE [ok |-> TRUE, utc |-> [day |-> d.day, sec |-> d.sec],
               microsecond |-> d.us]
    ELSE LET us_raw == d.us - d.tzmicrosecond
             carry == IF us_raw < 0 THEN -1
                      ELSE IF us_raw >= 1000000 THEN 1 ELSE 0
             sec_raw == d.sec - d.tzoffset + carry
             day_shift == IF sec_raw < 0 THEN -1
                          ELSE IF sec_raw >= SECONDS_PER_DAY THEN 1 ELSE 0
             utc == [day |-> d.day + day_shift,
                     sec |-> sec_raw - day_shift * SECONDS_PER_DAY]
         IN  IF \/ utc.day < 1 \/ utc.day > MAX_ORDINAL
                \/ (utc.day = 1 /\ utc.sec < CENTRAL_LMT_SECONDS)
             THEN ParseFailed
             ELSE [ok |-> TRUE, utc |-> utc,
                   microsecond |-> us_raw - carry * 1000000]

\* evt_utc of the time filter, as astimezone reads it.
parse_utc(time_str) ==
    IF time_str \in {Null, Missing} THEN ParseFailed
    ELSE utc_of(fromisoformat(ReplaceZ(time_str)))

\* Python's `a or b` on raw string fields read with get(key, "").
StrFieldOr(a, b) == IF Truthy(a) THEN a ELSE b

-----------------------------------------------------------------------------
(* The four event pipelines: time filter, vehicle filter, enrich, sort *)

\* EVENT_SEVERITY_ORDER.get(t, 50) of the daily camera script.
EVENT_SEVERITY_ORDER_daily(t) ==
    CASE t = "collision" -> 1
      [] t = "near_collision" -> 2
      [] t = "forward_collision_warning" -> 3
      [] t = "distraction" -> 4
      [] t = "cell_phone" -> 5
      [] t = "drowsiness" -> 6
      [] t = "stop_sign_violation" -> 7
      [] t = "unsafe_lane_change" -> 8
      [] t = "lane_swerving" -> 8
      [] t = "close_following" -> 9
      [] t = "hard_brake" -> 10
      [] t = "seat_belt_violation" -> 11
      [] t = "camera_obstruction" -> 12
      [] t = "smoking" -> 13
      [] t = "hard_accel" -> 14
      [] t = "hard_corner" -> 15
      [] t = "speed_violation" -> 16
      [] OTHER -> 50

\* _event_sort_key(event) of the daily camera script: the pair
\* (tier order, severity) as one number.
_event_sort_key_daily(event) ==
    LET tier_order == CASE event.tier = "RED" -> 0
                        [] event.tier = "ORANGE" -> 1
                        [] event.tier = "YELLOW" -> 2
                        [] OTHER -> 1
    IN  tier_order * 100 + EVENT_SEVERITY_ORDER_daily(event.event_type)

\* key=lambda x: x["overspeed"], reverse=True
overspeed_desc(x) == 0 - x.overspeed

\* sorted(s, key=...): ascending and stable; keys[i] is the key of s[i].
StableSortBy(s, keys) ==
    LET rank(i) == 1 + Cardinality({j \in 1..Len(s) :
                          \/ keys[j] < keys[i]
                          \/ (keys[j] = keys[i] /\ j < i)})
    IN  [k \in 1..Len(s) |-> s[CHOOSE i \in 1..Len(s) : rank(i) = k]]

\* raw_type of the camera pipelines.
camera_raw_type(evt) ==
    StrFieldOr(StrFieldOr(StrFieldOr(GetOr(evt.type, ""),
                                     GetOr(evt.event_type, "")),
                          GetOr(evt.behavior_type, "")), "")

\* evt_time_str of the camera pipelines and of the weekly speeding pipeline.
camera_time_str(evt) ==
    StrFieldOr(StrFieldOr(GetOr(evt.start_time, ""),
                          GetOr(evt.event_time, "")),
               GetOr(evt.created_at, ""))

speeding_time_str(evt) == GetOr(evt.start_time, "")

\* `if not (start <= evt_central <= end): continue` on a parsed time: TRUE
\* when the event is not skipped. Both ends of the window are whole
\* seconds, so that a time of the last second with a fraction is after it.
in_window(parsed, window_start, window_end) ==
    /\ DtLeq(window_start, astimezone_central(parsed.utc))
    /\ DtLeq(astimezone_central(parsed.utc), window_end)
    /\ ~(astimezone_central(parsed.utc) = window_end
         /\ parsed.microsecond > 0)

\* The try block of the time filter on the outcome of the parse, with the
\* answer on_exception of the except branch.
try_time_filter(parsed, window_start, window_end, on_exception) ==
    IF parsed.ok THEN in_window(parsed, window_start, window_end)
    ELSE on_exception

\* Variant of passes_time_filter: an event whose time cannot be parsed is
\* dropped.
passes_time_filter_drop_unparsed(evt_time_str, window_start, window_end) ==
    try_time_filter(parse_utc(evt_time_str), window_start, window_end, FALSE)

\* The try block of the time filter: TRUE when the event goes on to the
\* vehicle filter.  A parsed time outside [window_start, window_end] reaches
\* `continue`; an exception reaches `pass`.
passes_time_filter(evt_time_str, window_start, window_end) ==
    try_time_filter(parse_utc(evt_time_str), window_start, window_end, TRUE)

\* vehicle_number of the vehicle filter of the weekly speeding pipeline.
filter_vehicle_number_speeding(v) ==
    CASE v.tag = "dict"    -> GetOr(v.number, "")
      [] v.tag = "missing" -> ""
      [] v.tag = "null"    -> "None"
      [] OTHER             -> v.number

\* vehicle_number of the vehicle filter of the camera pipelines.
filter_vehicle_number_camera(v) ==
    CASE v.tag = "dict"    -> GetOr(v.number, "")
      [] v.tag = "missing" -> ""
      [] v.tag = "null"    -> ""
      [] OTHER             -> v.number

\* not (vehicle_number and casing_vehicles
\*      and vehicle_number not in casing_vehicles)
passes_vehicle_filter(vehicle_number, casing_vehicles) ==
    ~(/\ Truthy(vehicle_number)
      /\ casing_vehicles # {}
      /\ vehicle_number \notin casing_vehicles)

\* The outcome of a pipeline whose loop ran to its end: the returned list
\* and the counts it printed.
Returned(events, log) == [raised |-> FALSE, events |-> events, log |-> log]

\* The first exception of the enrich calls, in list order.
FirstRaised(results) ==
    results[CHOOSE i \in 1..Len(results) :
                /\ results[i].raised
                /\ \A j \in 1..(i - 1) : ~results[j].raised]

AnyRaised(results) == \E i \in 1..Len(results) : results[i].raised

\* get_speeding_events_weekly(start_ct, end_ct, vehicle_drivers,
\* vehicle_yards, casing_vehicles) on the raw events raws the vendor
\* returned.
get_speeding_events_weekly(raws, start_ct, end_ct, vehicle_drivers, vehicle_yards, casing_vehicles) ==
    LET kept == SelectSeq(raws, LAMBDA evt :
                    /\ passes_time_filter(speeding_time_str(evt),
                                          start_ct, end_ct)
                    /\ passes_vehicle_filter(
                           filter_vehicle_number_speeding(evt.vehicle),
                           casing_vehicles))
        filtered == [i \in 1..Len(kept) |->
                        _enrich_speeding_event_full(kept[i], vehicle_drivers,
                                                    vehicle_yards)]
    IN  IF AnyRaised(filtered) THEN FirstRaised(filtered)
        ELSE Returned(StableSortBy(filtered,
                        [i \in 1..Len(filtered) |-> overspeed_desc(filtered[i])]),
                      [raw_fetched |-> Len(raws),
                       after_filter |-> Len(filtered)])

\* get_camera_events_weekly(start_ct, end_ct, vehicle_drivers,
\* vehicle_yards, casing_vehicles)
get_camera_events_weekly(raws, start_ct, end_ct, vehicle_drivers, vehicle_yards, casing_vehicles) ==
    LET kept == SelectSeq(raws, LAMBDA evt :
                    /\ passes_time_filter(camera_time_str(evt),
                                          start_ct, end_ct)
                    /\ passes_vehicle_filter(
                           filter_vehicle_number_camera(evt.vehicle),
                           casing_vehicles))
        filtered == [i \in 1..Len(kept) |->
                        _enrich_camera_event(kept[i], vehicle_drivers,
                                             vehicle_yards,
                                             camera_raw_type(kept[i]))]
    IN  IF AnyRaised(filtered) THEN FirstRaised(filtered)
        ELSE Returned(StableSortBy(filtered,
                        [i \in 1..Len(filtered) |-> _event_sort_key(filtered[i])]),
                      [raw_fetched |-> Len(raws),
                       after_filter |-> Len(filtered)])

\* get_camera_events_for_date(report_date, vehicle_drivers, vehicle_yards,
\* casing_vehicles) of the daily camera script; report_date is a local date.
get_camera_events_for_date(raws, report_date, vehicle_drivers, vehicle_yards, casing_vehicles) ==
    LET start_central == DateTime(report_date, 0, 0, 0)
        end_central == DateTime(report_date, 23, 59, 59)
        in_time == SelectSeq(raws, LAMBDA evt :
                       passes_time_filter(camera_time_str(evt),
                                          start_central, end_central))
        kept == SelectSeq(in_time, LAMBDA evt :
                    passes_vehicle_filter(
                        filter_vehicle_number_camera(evt.vehicle),
                        casing_vehicles))
        filtered == [i \in 1..Len(kept) |->
                        enrich_camera_event(kept[i], vehicle_drivers,
                                            vehicle_yards,
                                            camera_raw_type(kept[i]))]
    IN  IF AnyRaised(filtered) THEN FirstRaised(filtered)
        ELSE Returned(StableSortBy(filtered,
                        [i \in 1..Len(filtered) |-> _event_sort_key_daily(filtered[i])]),
                      [raw_fetched |-> Len(raws),
                       after_filter |-> Len(filtered),
                       non_casing_count |-> Len(in_time) - Len(kept),
                       outside_window_count |-> Len(raws) - Len(in_time)])

\* The events enriched before the first enrich call that raises.
RECURSIVE UntilRaised(_)
UntilRaised(results) ==
    IF results = <<>> \/ Head(results).raised THEN <<>>
    ELSE <<Head(results)>> \o UntilRaised(Tail(results))

\* get_24h_speeding_events(vehicle_drivers, vehicle_groups) of the daily
\* speeding script: every event of the vendor's answer is enriched; an
\* exception ends the loop, is printed, and the events before it are
\* returned.
get_24h_speeding_events(raws, vehicle_drivers, vehicle_groups) ==
    LET enriched_all == [i \in 1..Len(raws) |->
                            enrich_event(raws[i], vehicle_drivers,
                                         vehicle_groups)]
        all_events == UntilRaised(enriched_all)
    IN  Returned(StableSortBy(all_events,
                        [i \in 1..Len(all_events) |-> overspeed_desc(all_events[i])]),
                 [raw_fetched |-> Len(raws),
                  errors |-> IF AnyRaised(enriched_all) THEN 1 ELSE 0])

\* The fleet of the pipeline runs: vehicle 5010C has a driver in the lookup
\* map, 5022C has none, 5187 belongs to another division, whose groups
\* have no yard in GROUP_ID_MAP.
PIPELINE_DRIVERS == [v \in {"5010C"} |-> "Ann Lee"]
PIPELINE_YARDS == [v \in {"5010C", "5022C"} |->
                      IF v = "5010C" THEN "Midland" ELSE "Bryan"]
PIPELINE_GROUPS == [v \in {"5010C", "5022C", "5187"} |->
                      IF v = "5187" THEN <<"Poly Pipe", "">>
                      ELSE <<"Casing", "Midland">>]
CASING_FLEET == {"5010C", "5022C"}

\* The clock of the runs: Wednesday, March 11, 2026, 15:00 UTC (10:00 in
\* Chicago).  The week before is March 2 to March 8, the day the clocks go
\* forward; the day before is March 10.
PipelineClock == DateTime(Ordinal(2026, 3, 11), 15, 0, 0)

\* yesterday = today - timedelta(days=1), as a local date.
yesterday_of(now_utc_dt) == astimezone_central(now_utc_dt).day - 1

\* Timestamps of the events of a weekly answer: around both ends of the
\* local week, inside it, with a fraction of the last second, with another
\* offset, without an offset, a date alone, and three that cannot be parsed.
WeeklyTimes ==
    {"2026-03-02T05:59:59Z", "2026-03-02T06:00:00Z", "2026-03-05T18:00:00Z",
     "2026-03-09T04:59:59Z", "2026-03-09T05:00:00Z",
     "2026-03-09T04:59:59.500Z", "2026-03-08T22:30:00-06:00",
     "2026-03-02 05:59:59", "2026-03-02",
     "not-a-date", Null, Missing}

\* Timestamps of the events of a daily camera answer.
DailyTimes ==
    {"2026-03-10T04:59:59Z", "2026-03-10T05:00:00Z", "2026-03-10T18:00:00Z",
     "2026-03-11T04:59:59Z", "2026-03-11T05:00:00Z",
     "2026-03-11T04:59:59.500Z", "2026-03-10T23:30:00-06:00",
     "2026-03-10 05:00:00", "2026-03-10",
     "not-a-date", Null, Missing}

\* Timestamps of the events of a last-24-hours answer: between
\* March 10, 15:00 UTC and March 11, 15:00 UTC.
Last24hTimes ==
    {"2026-03-10T18:00:00Z", "2026-03-11T04:59:59Z", "2026-03-11T05:00:00Z",
     "2026-03-11T13:00:00Z", "not-a-date", Missing}

\* A raw speeding event of vehicle number at a speed of kmh tenths of km/h
\* where the limit is 1046 (65 mph).
SpeedingRaw(start_time, number, kmh) ==
    [start_time |-> start_time,
     vehicle |-> Vehicle("dict", number),
     driver |-> Driver("missing", Missing, Missing),
     max_vehicle_speed |-> kmh, avg_vehicle_speed |-> NoneNum,
     min_posted_speed_limit_in_kph |-> 1046,
     max_over_speed_in_kph |-> kmh - 1046,
     avg_over_speed_in_kph |-> NoneNum,
     lat |-> NoneNum, lon |-> NoneNum]

\* A raw camera event of vehicle number with the vendor type raw_type.
CameraRaw(start_time, number, raw_type) ==
    [type |-> raw_type, event_type |-> Missing, behavior_type |-> Missing,
     start_time |-> start_time, event_time |-> Missing,
     created_at |-> Missing,
     vehicle |-> Vehicle("dict", number),
     driver |-> Driver("missing", Missing, Missing),
     start_speed |-> NoneNum, max_speed |-> NoneNum, end_speed |-> NoneNum,
     lat |-> NoneNum, lon |-> NoneNum]

PipelineKinds ==
    {"weekly_speeding", "weekly_camera", "daily_camera", "daily_speeding"}

\* The events a vendor answer is made of, per pipeline; one has a driver
\* object whose names stand between a form feed and a vertical tab, or a
\* vendor type between a vertical tab and a form feed.
RawPool(kind) ==
    CASE kind = "weekly_speeding" ->
            {SpeedingRaw(t, "5010C", 1287) : t \in WeeklyTimes}
            \cup {SpeedingRaw("2026-03-05T18:00:00Z", "5187", 1448),
                  SpeedingRaw("not-a-date", "5187", 1448),
                  SpeedingRaw("not-a-date", "5022C", 1448),
                  [SpeedingRaw("2026-03-05T18:00:00Z", "5022C", 1448)
                      EXCEPT !.driver = Driver("dict", "\fCy", "Roe")]}
      [] kind = "weekly_camera" ->
            {CameraRaw(t, "5010C", "hard_brake") : t \in WeeklyTimes}
            \cup {CameraRaw("2026-03-05T18:00:00Z", "5187", "cell_phone"),
                  CameraRaw("not-a-date", "5187", "cell_phone"),
                  CameraRaw("not-a-date", "5022C", "cell_phone"),
                  CameraRaw("2026-03-05T18:00:00Z", "5022C",
                            "Cell Phone\f")}
      [] kind = "daily_camera" ->
            {CameraRaw(t, "5010C", "hard_brake") : t \in DailyTimes}
            \cup {CameraRaw("2026-03-10T18:00:00Z", "5187", "cell_phone"),
                  CameraRaw("not-a-date", "5187", "cell_phone"),
                  CameraRaw("not-a-date", "5022C", "cell_phone"),
                  CameraRaw("2026-03-10T18:00:00Z", "5022C",
                            "Cell Phone\f")}
      [] OTHER ->
            {SpeedingRaw(t, "5010C", 1287) : t \in Last24hTimes}
            \cup {SpeedingRaw("2026-03-11T13:00:00Z", "5187", 1448),
                  [SpeedingRaw("2026-03-10T18:00:00Z", "5022C", 1448)
                      EXCEPT !.driver = Driver("dict", "\fCy", "Roe")]}

MaxRaw == 2

\* The pipeline call of main, on a vendor answer of at most MaxRaw events.
run_pipeline(kind, raws, now_utc_dt) ==
    CASE kind = "weekly_speeding" ->
            get_speeding_events_weekly(raws,
                get_week_range(now_utc_dt).start_ct,
                get_week_range(now_utc_dt).end_ct,
                PIPELINE_DRIVERS, PIPELINE_YARDS, CASING_FLEET)
      [] kind = "weekly_camera" ->
            get_camera_events_weekly(raws,
                get_week_range(now_utc_dt).start_ct,
                get_week_range(now_utc_dt).end_ct,
                PIPELINE_DRIVERS, PIPELINE_YARDS, CASING_FLEET)
      [] kind = "daily_camera" ->
            get_camera_events_for_date(raws, yesterday_of(now_utc_dt),
                PIPELINE_DRIVERS, PIPELINE_YARDS, CASING_FLEET)
      [] OTHER ->
            get_24h_speeding_events(raws, PIPELINE_DRIVERS, PIPELINE_GROUPS)

RunPipeline ==
    /\ pc = "start"
    /\ \E kind \in PipelineKinds :
         \E raws \in SeqsUpTo(RawPool(kind), MaxRaw) :
            /\ pipeline' = kind
            /\ raw_events' = raws
            /\ pipeline_clock' = PipelineClock
            /\ pipeline_result' = run_pipeline(kind, raws, PipelineClock)
    /\ pc' = "piped"
    /\ UNCHANGED <<coreVars, categoryVars, weekVars, kpaVars, enrichVars, divisionVars, normVars, offenderVars, scoreVars, recVars, distVars, nameVars>>

-----------------------------------------------------------------------------
(* KPA form rows and their date filter *)

\* The UTC offset of the zone of the machine, which datetime.timestamp()
\* applies to a naive datetime: the scheduled runner's clock is UTC.
SYSTEM_UTC_OFFSET_HOURS == 0

\* date(1970, 1, 1).toordinal(): timestamp() counts from this day.
EPOCH_DAY == 719163

\* utcoffset() of a Central wall-clock time in 2026.
utcoffset_hours_local(local) ==
    IF /\ DtLeq(DateTime(DST_START_2026.day, 3, 0, 0), local)
       /\ ~DtLeq(DateTime(DST_END_2026.day, 2, 0, 0), local)
    THEN -5 ELSE -6

\* A POSIX timestamp as the whole days since the epoch and the seconds of
\* the day, which compare as the numbers of seconds do (DtLeq).
timestamp_of(days, seconds) ==
    [day |-> days + (seconds \div SECONDS_PER_DAY),
     sec |-> seconds % SECONDS_PER_DAY]

\* aware.timestamp() of a Central datetime.
aware_timestamp(local) ==
    timestamp_of(local.day - EPOCH_DAY,
                 local.sec - utcoffset_hours_local(local) * 3600)

\* naive.timestamp().  (On the first day of year 1 it raises; a row of that
\* day is outside every window either way.)
naive_timestamp(dt) ==
    timestamp_of(dt.day - EPOCH_DAY,
                 dt.sec - SYSTEM_UTC_OFFSET_HOURS * 3600)

\* The characters that \s of the strptime pattern matches.
StrptimeWhitespace == Whitespace

\* The number of whitespace characters of s in a row from position p.
RECURSIVE WhitespaceRun(_, _)
WhitespaceRun(s, p) ==
    IF At(s, p) \in StrptimeWhitespace THEN 1 + WhitespaceRun(s, p + 1) ELSE 0

\* A field of one or two digits at position p of s: its value when it is at
\* most hi, -1 otherwise.
StrptimeField(s, p, hi) ==
    LET k == DigitRun(s, p)
        v == ParseDigits(s, p, k)
    IN  IF k \in {1, 2} /\ v <= hi THEN v ELSE -1

\* datetime.strptime(date_str, '%Y-%m-%d %H:%M:%S'): ParseFailed when it
\* raises. The year has four digits, the other fields one or two; the day
\* may be a blank and one digit; the blank of the format matches any run of
\* whitespace; nothing may follow the seconds.
strptime_kpa(date_str) ==
    IF date_str \in {Null, Missing} THEN ParseFailed
    ELSE LET s  == date_str
             y  == IF DigitRun(s, 0) >= 4 THEN ParseDigits(s, 0, 4) ELSE -1
             mo == StrptimeField(s, 5, 12)
             day_at == 6 + DigitRun(s, 5)
             blank_day == /\ At(s, day_at) = " "
                          /\ At(s, day_at + 1) \in Digits \ {"0"}
                          /\ At(s, day_at + 2) \in StrptimeWhitespace
             d  == IF blank_day THEN ParseDigits(s, day_at + 1, 1)
                   ELSE StrptimeField(s, day_at, 31)
             blank_at == IF blank_day THEN day_at + 2
                         ELSE day_at + DigitRun(s, day_at)
             hour_at == blank_at + WhitespaceRun(s, blank_at)
             h  == StrptimeField(s, hour_at, 23)
             minute_at == hour_at + DigitRun(s, hour_at) + 1
             mi == StrptimeField(s, minute_at, 59)
             second_at == minute_at + DigitRun(s, minute_at) + 1
             sec == StrptimeField(s, second_at, 61)
         IN  IF /\ y >= 1 /\ At(s, 4) = "-"
                /\ mo >= 1 /\ At(s, day_at - 1) = "-"
                /\ d >= 1
                /\ hour_at > blank_at
                /\ h >= 0 /\ At(s, minute_at - 1) = ":"
                /\ mi >= 0 /\ At(s, second_at - 1) = ":"
                /\ sec >= 0 /\ sec <= 59
                /\ second_at + DigitRun(s, second_at) = Len(s)
                /\ d <= DaysInMonth(y, mo)
             THEN [ok |-> TRUE, dt |-> DateTime(Ordinal(y, mo, d), h, mi, sec)]
             ELSE ParseFailed

\* A row of the CSV answer: its 'report number' and 'date' columns, and the
\* kpa_link the weekly script adds.
KpaRow(report_number, date) ==
    [report_number |-> report_number, date |-> date, kpa_link |-> Missing]

KPA_LINK_BASE == "https://brhas-ees.kpaehs.com/forms/responses/view/"

\* The body of the row loop of get_kpa_data_weekly: TRUE when the row is
\* appended to filtered.  The repeated header row and a row whose date
\* raises in strptime reach `continue`.
kpa_row_kept(r, start_s, end_s) ==
    /\ GetOr(r.report_number, None) # "Report Number"
    /\ LET parsed == strptime_kpa(GetOr(r.date, ""))
       IN  IF parsed.ok
           THEN /\ DtLeq(start_s, naive_timestamp(parsed.dt))
                /\ DtLeq(naive_timestamp(parsed.dt), end_s)
           ELSE FALSE

\* row['kpa_link'] = ... if report_num
with_kpa_link(r) ==
    IF Truthy(GetOr(r.report_number, ""))
    THEN [r EXCEPT !.kpa_link = KPA_LINK_BASE \o r.report_number]
    ELSE r

\* The filtered rows of one form of get_kpa_data_weekly.
kpa_filtered_weekly(rows, start_ct, end_ct) ==
    LET kept == SelectSeq(rows, LAMBDA r :
                    kpa_row_kept(r, aware_timestamp(start_ct),
                                 aware_timestamp(end_ct)))
    IN  [i \in 1..Len(kept) |-> with_kpa_link(kept[i])]

\* get_kpa_data_weekly(start_ct, end_ct) on the CSV rows the vendor returned
\* for each form (no rows: "No data returned").
get_kpa_data_weekly(answers, start_ct, end_ct) ==
    [incidents |-> kpa_filtered_weekly(answers[151622], start_ct, end_ct),
     observations |-> kpa_filtered_weekly(answers[151085], start_ct, end_ct),
     assessments |-> kpa_filtered_weekly(answers[381707], start_ct, end_ct)]

\* pull_form_data(form_id, form_name) of the daily KPA script at the naive
\* local time now_dt of the machine: the rows of yesterday, None when there
\* are none.
pull_form_data(rows, now_dt) ==
    LET yesterday_start == DateTime(now_dt.day - 1, 0, 0, 0)
        today_start == DateTime(now_dt.day, 0, 0, 0)
        filtered_rows == SelectSeq(rows, LAMBDA r :
            /\ GetOr(r.report_number, None) # "Report Number"
            /\ LET parsed == strptime_kpa(GetOr(r.date, ""))
               IN  /\ parsed.ok
                   /\ DtLeq(naive_timestamp(yesterday_start),
                            naive_timestamp(parsed.dt))
                   /\ ~DtLeq(naive_timestamp(today_start),
                             naive_timestamp(parsed.dt)))
    IN  IF Len(filtered_rows) = 0 THEN None
        ELSE [rows |-> filtered_rows, count |-> Len(filtered_rows)]

\* The date column of the rows of an answer: around both ends of the week
\* and of the day before the run, with fields of one digit, with a run of
\* blanks, with a vertical tab and with the separator characters 1C and 1F
\* for the blank, of a far year, and four that strptime rejects.
KpaDates ==
    {"2026-03-02 05:59:59", "2026-03-02 06:00:00", "2026-03-05 12:00:00",
     "2026-03-09 04:59:59", "2026-03-09 05:00:00",
     "2026-03-09 23:59:59", "2026-03-10 00:00:00", "2026-03-10 23:59:59",
     "2026-03-11 00:00:00", "2026-3-5 1:2:3", "2026-03-10  12:00:00",
     "2026-03-0512:00:00", "2026-03-1012:00:00",
     "9999-12-31 23:59:59", "2026-03-05T12:00:00",
     "03/05/2026", "", Missing}

KpaRowPool ==
    {KpaRow("1001", d) : d \in KpaDates}
    \cup {KpaRow("Report Number", "Date"),
          KpaRow(Missing, "2026-03-05 12:00:00"),
          KpaRow("1002", "03/05/2026")}

MaxKpaRows == 2

KpaCalls == {"weekly_incidents", "weekly_observations",
             "weekly_assessments", "daily"}

\* The answers of the three forms when only the form of the call has rows.
KpaAnswers(call, rows) ==
    [f \in {151085, 151622, 381707} |->
        IF \/ (call = "weekly_incidents" /\ f = 151622)
           \/ (call = "weekly_observations" /\ f = 151085)
           \/ (call = "weekly_assessments" /\ f = 381707)
        THEN rows ELSE <<>>]

run_kpa(call, rows, now_utc_dt) ==
    IF call = "daily" THEN pull_form_data(rows, now_utc_dt)
    ELSE get_kpa_data_weekly(KpaAnswers(call, rows),
                             get_week_range(now_utc_dt).start_ct,
                             get_week_range(now_utc_dt).end_ct)

RunKpa ==
    /\ pc = "start"
    /\ \E call \in KpaCalls :
         \E rows \in SeqsUpTo(KpaRowPool, MaxKpaRows) :
            /\ kpa_call' = call
            /\ kpa_rows' = rows
            /\ kpa_result' = run_kpa(call, rows, PipelineClock)
    /\ pc' = "kpa_pulled"
    /\ UNCHANGED <<coreVars, categoryVars, weekVars, pipelineVars, enrichVars, divisionVars, normVars, offenderVars, scoreVars, recVars, distVars, nameVars>>

-----------------------------------------------------------------------------
(* One call of an enrich function on one raw event *)

EnrichFunctions ==
    {"enrich_event", "_enrich_speeding_event",
     "enrich_camera_event", "_enrich_camera_event"}

\* The call fn(evt, vehicle_drivers, lookup): lookup is vehicle_groups for
\* enrich_event and vehicle_yards for the other three.
call_enrich(fn, evt, vehicle_drivers, lookup) ==
    CASE fn = "enrich_event" -> enrich_event(evt, vehicle_drivers, lookup)
      [] fn = "_enrich_speeding_event" ->
            _enrich_speeding_event_full(evt, vehicle_drivers, lookup)
      [] fn = "enrich_camera_event" ->
            enrich_camera_event(evt, vehicle_drivers, lookup,
                                camera_raw_type(evt))
      [] OTHER ->
            _enrich_camera_event(evt, vehicle_drivers, lookup,
                                 camera_raw_type(evt))

\* The vehicle field of the raw events: fleet numbers with and without a
\* name in them, one with a vertical tab before the name and the separator
\* character 1F after it, and the malformed shapes.
EnrichVehicles ==
    {Vehicle("dict", n) :
        n \in {"5010C", "5022C", "5010C John Smith",
               "POL-2324PP - Yem Bobey", "5010C A12 John Smith",
               "5010C 22 - 7 Al Roy", "5010C 22 Al", "5010C 4x4",
               "5010C 123", "John Smith", "Safety WIN-RAT-2529 Sean Fry",
               "5022C Bo Diaz", Missing, Null}}
    \cup {Vehicle("null", ""), Vehicle("missing", ""),
          Vehicle("str", "5022C")}

\* The driver field of the raw events: absent, null, objects with both
\* names, with empty, absent and null names, with names between a form
\* feed and a vertical tab, and a text in place of the object.
EnrichDrivers ==
    {Driver("missing", Missing, Missing), Driver("null", Missing, Missing),
     Driver("dict", "Ann", "Lee"), Driver("dict", "", ""),
     Driver("dict", "Ann", Missing), Driver("dict", Missing, Missing),
     Driver("dict", Null, Null), Driver("dict", Null, "Lee"),
     Driver("dict", "\fCy", "Roe"), Driver("dict", "", "\f"),
     Driver("str", Missing, Missing)}

\* The driver lookup maps, as build_vehicle_lookup fills them (a vehicle
\* without a driver name has no entry): empty, and one with a name for
\* 5010C and for "5010C 22 Al".
EnrichDriverLookups ==
    {<<>>,
     [v \in {"5010C", "5010C 22 Al"} |->
         IF v = "5010C" THEN "Map Driver" ELSE "Al Roy"]}

\* The numeric fields of the raw events: as the vendor documents them, with
\* a text in place of a speed, and with a text in place of a coordinate.
EnrichShapes == {"numbers", "located", "speed_text", "coordinate_text"}

\* The raw event of a function with the given vehicle, driver and shape.
EnrichRaw(fn, v, d, shape) ==
    LET base == IF fn \in {"enrich_event", "_enrich_speeding_event"}
                THEN SpeedingRaw("2026-03-05T18:00:00Z", "", 1287)
                ELSE [CameraRaw("2026-03-05T18:00:00Z", "", "hard_brake")
                         EXCEPT !.start_speed = 885]
        shaped ==
            CASE shape = "located" ->
                    [base EXCEPT !.lat = 319, !.lon = 1021]
              [] shape = "coordinate_text" ->
                    [base EXCEPT !.lat = NotANumber, !.lon = 1021]
              [] shape = "speed_text" ->
                    IF fn \in {"enrich_event", "_enrich_speeding_event"}
                    THEN [base EXCEPT !.max_vehicle_speed = NotANumber]
                    ELSE [base EXCEPT !.start_speed = NotANumber]
              [] OTHER -> base
    IN  [shaped EXCEPT !.vehicle = v, !.driver = d]

ENRICH_YARDS == [v \in {"5010C"} |-> "Midland"]
ENRICH_GROUPS == [v \in {"5010C"} |-> <<"Casing", "Midland">>]

EnrichOne ==
    /\ pc = "start"
    /\ \E fn \in EnrichFunctions, v \in EnrichVehicles, d \in EnrichDrivers,
          vd \in EnrichDriverLookups, shape \in EnrichShapes :
         LET evt == EnrichRaw(fn, v, d, shape)
             lookup == IF fn = "enrich_event" THEN ENRICH_GROUPS
                       ELSE ENRICH_YARDS
         IN  /\ enrich_call' = [fn |-> fn, evt |-> evt,
                                vehicle_drivers |-> vd, lookup |-> lookup]
             /\ enrich_out' = call_enrich(fn, evt, vd, lookup)
    /\ pc' = "enriched_one"
    /\ UNCHANGED <<coreVars, categoryVars, weekVars, pipelineVars, kpaVars, divisionVars, normVars, offenderVars, scoreVars, recVars, distVars, nameVars>>

-----------------------------------------------------------------------------
(* enrich_event on the vehicles of every division *)

\* Vehicle numbers: one for each prefix of the table, the Casing
\* convention, numbers no rule knows, the Sales/Admin and Shawnee
\* vehicles, and two with a name set off by a vertical tab or by the
\* separator character 1C.
DivisionVehicles ==
    {"LL-RAT-101", "MID-RAT-7", "WIN-RAT-2529", "BAR-RAT-3", "JOU-RAT-1",
     "TOW-RAT-2", "OK-RAT-9", "DS-RAT-4", "BTI-44", "VAL-12", "TD-5",
     "POL-2324PP - Yem Bobey", "ENV-1", "FEN-2", "ANC-3", "PIT-4", "CON-5",
     "SALES-1", "Sales Truck", "mid-rat-7", "XMID-RAT-1",
     "5010C", "19107C John Smith", "5010Cx", "5010", "C5010", "Truck 12",
     "Safety WIN-RAT-2529 Sean Fry", "MID-RAT-12 Shawnee", "Shawnee 12",
     "5010C shawnee", "TD-5 Bo Diaz\f", "5010CAl Roy"}

\* Group lookups, as build_vehicle_lookup fills them from the groups of the
\* fleet, each value a value of GROUP_ID_MAP: none, and three that assign
\* some of the vehicles.
DivisionGroups ==
    {<<>>,
     [v \in {"5010C", "MID-RAT-7"} |->
         IF v = "5010C" THEN <<"Casing", "Midland">>
         ELSE <<"Rathole", "Ohio">>],
     [v \in {"Safety WIN-RAT-2529 Sean Fry", "Truck 12"} |->
         IF v = "Truck 12" THEN <<"Casing", "Bryan">>
         ELSE <<"Rathole", "Ohio">>],
     [v \in {"MID-RAT-12 Shawnee", "5010Cx", "BTI-44"} |->
         IF v = "BTI-44" THEN <<"Butch's Trucking", "">>
         ELSE <<"Rathole", "Midland">>]}

EnrichDivision ==
    /\ pc = "start"
    /\ \E vn \in DivisionVehicles, vg \in DivisionGroups :
         /\ division_call' = [vehicle_number |-> vn, vehicle_groups |-> vg]
         /\ division_out' =
               enrich_event(SpeedingRaw("2026-03-10T18:00:00Z", vn, 1287),
                            <<>>, vg)
    /\ pc' = "division_resolved"
    /\ UNCHANGED <<coreVars, categoryVars, weekVars, pipelineVars, kpaVars, enrichVars, normVars, offenderVars, scoreVars, recVars, distVars, nameVars>>

-----------------------------------------------------------------------------
(* One raw type string through _normalize_event_type and _classify_tier *)

\* The keys of the weekly synonym table (the daily keys are among them).
NormalizeKeys == {kv[1] : kv \in Range(EVENT_TYPE_NORMALIZE)}

\* Raw type strings as the vendor may spell them: every key as it is, in
\* upper case, with spaces or hyphens for the underscores and with
\* whitespace around it (spaces and a tab; a vertical tab, a form feed and
\* the separator character 1F); null, empty and blank strings; spellings no
\* table knows, one of them a key with a vertical tab for the underscore.
RawTypeSpellings ==
    UNION {{k, Upper(k), ReplaceChar(k, "_", " "), ReplaceChar(k, "_", "-"),
            "  " \o k \o "\t", "" \o k \o "\f"} : k \in NormalizeKeys}
    \cup {Null, "", " ", " \t ", "", "\f", "Harsh Braking",
          " Harsh-Braking ", "harsh  braking", "unknown", "u_turn", "U-Turn",
          "Rolling Stop", "RED", "-", "hard_brake_", "hardbrake"}

\* event_type = _normalize_event_type(raw_type) and
\* tier = _classify_tier(event_type), in either camera script.
NormalizeType ==
    /\ pc = "start"
    /\ \E s \in {"daily", "weekly"}, raw \in RawTypeSpellings :
         LET t == IF s = "weekly" THEN _normalize_event_type(raw)
                  ELSE _normalize_event_type_daily(raw)
         IN  /\ norm_call' = [src |-> s, raw_type |-> raw]
             /\ norm_out' =
                   [event_type |-> t,
                    tier |-> IF s = "weekly" THEN _classify_tier(t)
                             ELSE _classify_tier_daily(t)]
    /\ pc' = "normalized"
    /\ UNCHANGED <<coreVars, categoryVars, weekVars, pipelineVars, kpaVars, enrichVars, divisionVars, offenderVars, scoreVars, recVars, distVars, nameVars>>

-----------------------------------------------------------------------------
(* Repeat offenders of one source *)

\* The drivers of the events that are not "Unknown", one per event.
named_drivers(events) ==
    SelectSeq([i \in 1..Len(events) |-> events[i].driver],
              LAMBDA d : d # "Unknown")

EventsOf(events, name) == SelectSeq(events, LAMBDA x : x.driver = name)

MaxOf(S) == CHOOSE x \in S : \A y \in S : y <= x
MinOf(S) == CHOOSE x \in S : \A y \in S : x <= y

\* Counter(e["display_name"] for e in evts).most_common(): by count,
\* largest first, equal counts in the order of first occurrence.  The
\* report joins the pairs as "<type> x<count>".
type_counts(evts) ==
    LET counts == CounterOf([i \in 1..Len(evts) |-> evts[i].display_name])
    IN  StableSortBy(counts, [i \in 1..Len(counts) |-> 0 - counts[i].count])

\* sort_key of the daily camera report: (-count, worst tier) as one number.
offender_sort_key(info) ==
    LET tier_order(t) == CASE t = "RED" -> 0
                           [] t = "ORANGE" -> 1
                           [] t = "YELLOW" -> 2
                           [] OTHER -> 1
        worst_tier == MinOf({tier_order(info.events[i].tier) :
                                i \in 1..Len(info.events)})
    IN  (0 - info.count) * 10 + worst_tier

\* get_repeat_offenders(events) of daily_casing_camera_report.py: the
\* items of the ordered dict it returns.
get_repeat_offenders_camera(events) ==
    LET names == FirstOccurrences(named_drivers(events))
        infos == [i \in 1..Len(names) |->
                    LET evts == EventsOf(events, names[i])
                    IN  [name |-> names[i], count |-> Len(evts),
                         types |-> type_counts(evts), events |-> evts]]
        repeats == SelectSeq(infos, LAMBDA info : info.count >= 2)
    IN  StableSortBy(repeats,
           [i \in 1..Len(repeats) |-> offender_sort_key(repeats[i])])

\* worst_over(name): max(e["overspeed"] for e in events if driver is name)
worst_over(events, name) ==
    MaxOf({events[i].overspeed :
              i \in {j \in 1..Len(events) : events[j].driver = name}})

\* Variant of get_repeat_offenders of daily_speeding_report.py that lists
\* a driver from the second event on.
get_repeat_offenders_speeding_from_2(events) ==
    LET driver_counts == CounterOf(named_drivers(events))
        repeats_3plus == SelectSeq(driver_counts, LAMBDA c : c.count >= 2)
        sorted_names ==
            StableSortBy(repeats_3plus,
               [i \in 1..Len(repeats_3plus) |->
                   0 - worst_over(events, repeats_3plus[i].key)])
    IN  SubSeq(sorted_names, 1,
               IF Len(sorted_names) < 10 THEN Len(sorted_names) ELSE 10)

\* get_repeat_offenders(events) of daily_speeding_report.py: the items
\* (name, count) of the dict it returns, at most ten.
get_repeat_offenders_speeding(events) ==
    LET driver_counts == CounterOf(named_drivers(events))
        repeats_3plus == SelectSeq(driver_counts, LAMBDA c : c.count >= 3)
        sorted_names ==
            StableSortBy(repeats_3plus,
               [i \in 1..Len(repeats_3plus) |->
                   0 - worst_over(events, repeats_3plus[i].key)])
    IN  SubSeq(sorted_names, 1,
               IF Len(sorted_names) < 10 THEN Len(sorted_names) ELSE 10)

\* The lines under "Repeat Speeders (3+ events):" of the weekly briefing:
\* name, count and the first event with the driver's largest overspeed.
weekly_repeat_speeders(events) ==
    LET driver_counts == CounterOf(named_drivers(events))
        repeats == SelectSeq(driver_counts, LAMBDA c : c.count >= 3)
        sorted_names ==
            StableSortBy(repeats,
               [i \in 1..Len(repeats) |->
                   0 - worst_over(events, repeats[i].key)])
    IN  [i \in 1..Len(sorted_names) |->
            LET mine == EventsOf(events, sorted_names[i].key)
                worst == mine[MinOf({j \in 1..Len(mine) :
                            mine[j].overspeed =
                               worst_over(events, sorted_names[i].key)})]
            IN  [key |-> sorted_names[i].key,
                 count |-> sorted_names[i].count,
                 overspeed |-> worst.overspeed, speed |-> worst.speed]]

OffenderSources == {"daily_camera", "daily_speeding", "weekly_speeding"}

repeat_offenders(source, events) ==
    CASE source = "daily_camera" -> get_repeat_offenders_camera(events)
      [] source = "daily_speeding" -> get_repeat_offenders_speeding(events)
      [] source = "weekly_speeding" -> weekly_repeat_speeders(events)

\* Enriched events as the reducers read them.
OffenderEvent(source, driver, n) ==
    IF source = "daily_camera"
    THEN [driver |-> driver,
          tier |-> IF n % 2 = 0 THEN "RED" ELSE "ORANGE",
          display_name |-> IF n % 2 = 0 THEN "Cell Phone" ELSE "Hard Brake"]
    ELSE [driver |-> driver, overspeed |-> 10 + n, speed |-> 75 + n]

CrowdNames ==
    <<"Ann", "Bob", "Cal", "Dee", "Eli", "Fay", "Gus", "Hal", "Ida", "Jon",
      "Kim", "Lou">>

\* n drivers with per events each, driver by driver.
CrowdList(source, n, per) ==
    [i \in 1..(n * per) |->
        OffenderEvent(source, CrowdNames[1 + ((i - 1) \div per)],
                      (i * 7) % 5)]

MaxOffenderEvents == 4

\* Short lists of every shape over two named drivers and "Unknown", and
\* crowds of up to twelve drivers with two or three events each.
OffenderLists(source) ==
    SeqsUpTo({OffenderEvent(source, d, n) :
                 d \in {"Ann", "Bob", "Unknown"}, n \in {0, 5}},
             MaxOffenderEvents)
    \cup {CrowdList(source, n, per) : n \in {2, 10, 11, 12}, per \in {2, 3}}

RepeatOffenders ==
    /\ pc = "start"
    /\ \E source \in OffenderSources :
         \E events \in OffenderLists(source) :
            /\ offender_call' = [source |-> source, events |-> events]
            /\ offender_out' = repeat_offenders(source, events)
    /\ pc' = "offenders_listed"
    /\ UNCHANGED <<coreVars, categoryVars, weekVars, pipelineVars, kpaVars, enrichVars, divisionVars, normVars, scoreVars, recVars, distVars, nameVars>>

-----------------------------------------------------------------------------
(* SECTION 10: the yard comparison scorecard *)

\* floor(log2(num / den)) of a positive quotient: the exponent of the
\* leading binary digit of the float total / vehicles.
RECURSIVE floor_log2(_, _)
floor_log2(num, den) ==
    IF num >= 2 * den THEN 1 + floor_log2(num, 2 * den)
    ELSE IF num < den THEN floor_log2(2 * num, den) - 1
    ELSE 0

\* 2^k modulo 25
RECURSIVE pow2_mod25(_)
pow2_mod25(k) == IF k = 0 THEN 1 ELSE (2 * pow2_mod25(k - 1)) % 25

\* The float that the division total / vehicles returns when the quotient
\* is m/200, half way between two hundredths, set against m/200 itself.
\* The float is the multiple of 2^(L - 52) nearest the quotient, L the
\* exponent of its leading digit; in that unit the quotient is
\* m * 2^(49 - L) / 25, which is whole (the float is "exact") only when 25
\* divides m, and otherwise lies a remainder of 1 to 12 twenty-fifths
\* above a whole number (the float is "below") or 13 to 24 (it is "above").
float_of_tie(m) ==
    LET rem == ((m % 25) * pow2_mod25(49 - floor_log2(m, 200))) % 25
    IN  IF rem = 0 THEN "exact" ELSE IF rem >= 13 THEN "above" ELSE "below"

\* round(total / vehicles, 2), in hundredths.  round() rounds the float
\* the division returned: a quotient nearer one hundredth goes to it; for
\* a quotient half way between two hundredths the float decides, up when
\* it is above the quotient, down when it is below, and to the even
\* hundredth when it is the quotient (1/8 gives 0.12, 1/40 gives 0.03,
\* 3/40 gives 0.07).
round_rate(total, vehicles) ==
    LET q == (total * 100) \div vehicles
        r == (total * 100) % vehicles
    IN  IF 2 * r < vehicles THEN q
        ELSE IF 2 * r > vehicles THEN q + 1
        ELSE CASE float_of_tie(2 * q + 1) = "above" -> q + 1
               [] float_of_tie(2 * q + 1) = "below" -> q
               [] OTHER -> IF q % 2 = 0 THEN q ELSE q + 1

\* The entry of one yard, before the sort.
yard_score(cam_evts, spd_evts, counts, yard) ==
    LET cam_count == Cardinality({i \in 1..Len(cam_evts) :
                                     cam_evts[i].yard = yard})
        spd_count == Cardinality({i \in 1..Len(spd_evts) :
                                     spd_evts[i].yard = yard})
        total == cam_count + spd_count
        vehicles == IF HasEntry(counts, yard) THEN counts[yard] ELSE 0
    IN  [yard |-> yard, vehicles |-> vehicles, camera |-> cam_count,
         speeding |-> spd_count, total |-> total,
         rate |-> IF vehicles > 0 THEN round_rate(total, vehicles) ELSE 0]

\* Variant of yard_scores that ranks by the number of events.
yard_scores_by_total(cam_evts, spd_evts, counts) ==
    LET scores == [i \in 1..Len(YARD_ORDER) |->
                      yard_score(cam_evts, spd_evts, counts, YARD_ORDER[i])]
    IN  StableSortBy(scores, [i \in 1..Len(scores) |-> 0 - scores[i].total])

\* yard_scores of create_word_document and of build_html_report, after
\* yard_scores.sort(key=lambda x: x["rate"], reverse=True).
yard_scores(cam_evts, spd_evts, counts) ==
    LET scores == [i \in 1..Len(YARD_ORDER) |->
                      yard_score(cam_evts, spd_evts, counts, YARD_ORDER[i])]
    IN  StableSortBy(scores, [i \in 1..Len(scores) |-> 0 - scores[i].rate])

\* yard_vehicle_counts as build_casing_vehicle_lookup returns it: a yard
\* without vehicle has no entry.
YardVehicleCounts ==
    {<<>>,
     [y \in Range(YARD_ORDER) |-> 8],
     [y \in {"Midland", "Bryan", "Kilgore", "Hobbs"} |->
         CASE y = "Midland" -> 22 [] y = "Bryan" -> 7
           [] y = "Kilgore" -> 8 [] OTHER -> 5],
     [y \in {"Midland", "Kilgore", "Laredo"} |->
         CASE y = "Midland" -> 3 [] y = "Kilgore" -> 3 [] OTHER -> 1],
     [y \in {"Midland", "Bryan", "Kilgore"} |->
         CASE y = "Midland" -> 40 [] y = "Bryan" -> 25 [] OTHER -> 200]}

\* The yards of the enriched events; "Unknown" is the yard of a vehicle
\* the lookup does not know.
ScoreYards == {"Midland", "Bryan", "Kilgore", "Unknown"}

MaxYardCam == 3
MaxYardSpd == 2

YardEvents(n) == SeqsUpTo({[yard |-> y] : y \in ScoreYards}, n)

YardScorecard ==
    /\ pc = "start"
    /\ \E cam_evts \in YardEvents(MaxYardCam),
          spd_evts \in YardEvents(MaxYardSpd),
          counts \in YardVehicleCounts :
         /\ score_call' = [camera_events |-> cam_evts,
                           speeding_events |-> spd_evts,
                           yard_vehicle_counts |-> counts]
         /\ score_out' = yard_scores(cam_evts, spd_evts, counts)
    /\ pc' = "scored"
    /\ UNCHANGED <<coreVars, categoryVars, weekVars, pipelineVars, kpaVars, enrichVars, divisionVars, normVars, offenderVars, recVars, distVars, nameVars>>

-----------------------------------------------------------------------------
(* The order of the camera events a fetch returns *)

\* Vendor types of every tier: two RED types of equal rank, ranked ORANGE
\* and YELLOW types, two types no table knows, and a RED type spelled with
\* a vertical tab before it and a form feed after it.
SortTypes ==
    {"collision", "lane_swerving", "unsafe_lane_change", "hard_brake",
     "u_turn", "rolling_stop", "speed_violation", "Cell Phone\f"}

\* Events of one Casing vehicle inside the report window of either script.
SortPool(kind) ==
    {CameraRaw(IF kind = "weekly_camera" THEN "2026-03-05T18:00:00Z"
               ELSE "2026-03-10T18:00:00Z", "5010C", t) : t \in SortTypes}

MaxSortRaw == 3

\* camera_events = get_camera_events_weekly(...) of the weekly main and
\* events = get_camera_events_for_date(...) of the daily main.
FetchCameraEvents ==
    /\ pc = "start"
    /\ \E kind \in {"weekly_camera", "daily_camera"} :
         \E raws \in SeqsUpTo(SortPool(kind), MaxSortRaw) :
            /\ pipeline' = kind
            /\ raw_events' = raws
            /\ pipeline_clock' = PipelineClock
            /\ pipeline_result' = run_pipeline(kind, raws, PipelineClock)
    /\ pc' = "camera_fetched"
    /\ UNCHANGED <<coreVars, categoryVars, weekVars, kpaVars, enrichVars, divisionVars, normVars, offenderVars, scoreVars, recVars, distVars, nameVars>>

-----------------------------------------------------------------------------
(* daily_kpa_report.py: the recommendations of the assessment analysis *)

\* The divisions of ASSESSMENT_FORMS, form by form.
ASSESSMENT_FORMS_divisions ==
    <<"Casing", "All", "Transcend", "Transcend", "Poly Pipe", "Pit Lining",
      "Construction", "Rathole", "HSE">>

\* str(n) of a natural number, as an f-string prints it.
RECURSIVE IntStr(_)
IntStr(n) ==
    LET digit == <<"0", "1", "2", "3", "4", "5", "6", "7", "8", "9">>
    IN  IF n < 10 THEN digit[n + 1]
        ELSE IntStr(n \div 10) \o digit[(n % 10) + 1]

\* ', '.join(ws)
RECURSIVE JoinComma(_)
JoinComma(ws) ==
    IF ws = <<>> THEN ""
    ELSE IF Len(ws) = 1 THEN ws[1]
    ELSE ws[1] \o ", " \o JoinComma(Tail(ws))

\* The orders in which a run may iterate over a set of strings: the order
\* follows the hash values of the strings, which are salted anew in each
\* process.
SetOrders(S) ==
    {p \in [1..Cardinality(S) -> S] :
        \A i, j \in 1..Cardinality(S) : p[i] = p[j] => i = j}

\* set(f['yard'] for f in critical)
critical_yards(analysis) ==
    {analysis.findings_by_severity.critical[i].yard :
        i \in 1..Len(analysis.findings_by_severity.critical)}

\* all_divisions - active_divisions
missing_divisions(analysis) ==
    Range(ASSESSMENT_FORMS_divisions)
    \ {analysis.activity_summary[i].division :
          i \in 1..Len(analysis.activity_summary)}

\* _generate_assessment_recommendations(analysis): the recommendations it
\* appends, when the run iterates over the set of yards in the order yards
\* and over the set of missing divisions in the order missing.
_generate_assessment_recommendations(analysis, yards, missing) ==
    LET critical == analysis.findings_by_severity.critical
        high == analysis.findings_by_severity.high
        non_compliant_yards ==
            SelectSeq(analysis.compliance_by_yard,
                      LAMBDA kv : kv.non_compliant > 0)
        open_cas == SelectSeq(analysis.corrective_actions,
                              LAMBDA ca : ca.status = "Open")
        stats == analysis.assessor_stats
        by_total == StableSortBy(stats,
                       [i \in 1..Len(stats) |-> 0 - stats[i].total])
        top_assessors ==
            SubSeq(by_total, 1, IF Len(by_total) < 3 THEN Len(by_total) ELSE 3)
        names == SelectSeq([i \in 1..Len(top_assessors) |->
                               top_assessors[i].key],
                           LAMBDA a : a # "Unknown")
        first5 == SubSeq(non_compliant_yards, 1,
                         IF Len(non_compliant_yards) < 5
                         THEN Len(non_compliant_yards) ELSE 5)
    IN  [immediate |->
            (IF critical # <<>>
             THEN <<"Address " \o IntStr(Len(critical))
                    \o " critical finding(s) in: " \o JoinComma(yards)>>
             ELSE <<>>)
            \o (IF high # <<>>
                THEN <<"Review " \o IntStr(Len(high))
                       \o " high-severity finding(s) requiring prompt attention">>
                ELSE <<>>),
         this_week |->
            (IF non_compliant_yards # <<>>
             THEN <<"Follow up on non-compliant assessments at: "
                    \o JoinComma([i \in 1..Len(first5) |-> first5[i].key])>>
             ELSE <<>>)
            \o (IF open_cas # <<>>
                THEN <<"Track " \o IntStr(Len(open_cas))
                       \o " open corrective action(s) to closure">>
                ELSE <<>>),
         monthly |->
            (IF stats # <<>> /\ names # <<>>
             THEN <<"Recognize top assessors: " \o JoinComma(names)>>
             ELSE <<>>)
            \o (IF missing # <<>>
                THEN <<"No assessments from: " \o JoinComma(missing)
                       \o " - consider scheduling">>
                ELSE <<>>)
            \o <<"Review assessment frequency targets vs. actual completion rates">>]

MaxCritical == 2

\* The analysis as analyze_assessments leaves it before the call, after
\* rows with one critical finding each in the yards crit_yards and with
\* no row of the forms of the divisions inactive.
AnalysisOf(crit_yards, inactive) ==
    LET yards == FirstOccurrences(crit_yards \o <<"Kilgore">>)
        forms == SelectSeq(ASSESSMENT_FORMS_divisions,
                           LAMBDA d : d \notin inactive)
    IN  [findings_by_severity |->
            [critical |-> [i \in 1..Len(crit_yards) |->
                              [yard |-> crit_yards[i],
                               severity |-> "critical"]],
             high |-> <<>>],
         compliance_by_yard |->
            [i \in 1..Len(yards) |->
                [key |-> yards[i],
                 non_compliant |-> IF yards[i] = "Kilgore" THEN 0 ELSE 1]],
         corrective_actions |->
            [i \in 1..Len(crit_yards) |-> [status |-> "Open"]],
         assessor_stats |->
            <<[key |-> "Unknown", total |-> 3], [key |-> "Ann", total |-> 2],
              [key |-> "Bob", total |-> 2], [key |-> "Cal", total |-> 1]>>,
         activity_summary |->
            [i \in 1..Len(forms) |-> [division |-> forms[i]]]]

AnalysisPool ==
    {AnalysisOf(ys, inactive) :
        ys \in SeqsUpTo({"Midland", "Bryan"}, MaxCritical),
        inactive \in SUBSET {"Pit Lining", "Construction", "HSE"}}

\* One run of the daily KPA report over the forms of the day.
GenerateRecommendations ==
    /\ pc = "start"
    /\ \E analysis \in AnalysisPool :
         \E yards \in SetOrders(critical_yards(analysis)),
            missing \in SetOrders(missing_divisions(analysis)) :
            /\ rec_analysis' = analysis
            /\ rec_first' = _generate_assessment_recommendations(
                               analysis, yards, missing)
    /\ rec_second' = rec_second
    /\ pc' = "recommended"
    /\ UNCHANGED <<coreVars, categoryVars, weekVars, pipelineVars, kpaVars, enrichVars, divisionVars, normVars, offenderVars, scoreVars, distVars, nameVars>>

\* Another run over the same forms.
GenerateRecommendationsAgain ==
    /\ pc = "recommended"
    /\ \E yards \in SetOrders(critical_yards(rec_analysis)),
          missing \in SetOrders(missing_divisions(rec_analysis)) :
         rec_second' = _generate_assessment_recommendations(
                          rec_analysis, yards, missing)
    /\ UNCHANGED <<rec_analysis, rec_first>>
    /\ pc' = "recommended_again"
    /\ UNCHANGED <<coreVars, categoryVars, weekVars, pipelineVars, kpaVars, enrichVars, divisionVars, normVars, offenderVars, scoreVars, distVars, nameVars>>

-----------------------------------------------------------------------------
(* distribute_safety_rep_emails.py: one email per safety rep *)

\* SAFETY_REP_MAP: the reps in table order, each with its addresses and
\* its (division, yard) pairs.
SAFETY_REP_MAP ==
    <<[name |-> "John Snodgrass", emails |-> <<"jsnodgrass@texasrigmove.com">>,
       divisions |-> <<<<"Rathole", "Midland">>, <<"Rathole", "Levelland">>,
                       <<"Rathole", "Barstow">>, <<"Transcend Drilling", "">>,
                       <<"Fencing", "">>, <<"Anchors", "">>,
                       <<"Environmental", "">>,
                       <<"Valor Energy Services", "">>>>],
      [name |-> "Hancock & Salazar",
       emails |-> <<"mhancock@brhas.com", "msalazar@brhas.com">>,
       divisions |-> <<<<"Casing", "Midland">>, <<"Casing", "San Angelo">>>>],
      [name |-> "Justin Conrad", emails |-> <<"jconrad@brhas.com">>,
       divisions |-> <<<<"Casing", "Bryan">>>>],
      [name |-> "James Barnett", emails |-> <<"jbarnett@brhas.com">>,
       divisions |-> <<<<"Casing", "Kilgore">>>>],
      [name |-> "Allen Batts", emails |-> <<"abatts@brhas.com">>,
       divisions |-> <<<<"Casing", "Hobbs">>>>],
      [name |-> "Joey Speyrer", emails |-> <<"jspeyrer@brhas.com">>,
       divisions |-> <<<<"Casing", "Jourdanton">>, <<"Casing", "Laredo">>>>],
      [name |-> "Jose Romero", emails |-> <<"jose.romero@brhas.com">>,
       divisions |-> <<<<"Poly Pipe", "">>, <<"Pit Lining", "">>,
                       <<"Construction", "">>>>],
      [name |-> "Sean Fry", emails |-> <<"sean.fry@brhas.com">>,
       divisions |-> <<<<"Rathole", "Ohio">>, <<"Rathole", "Pennsylvania">>>>],
      [name |-> "Wes Franklin", emails |-> <<"wes@texasrigmove.com">>,
       divisions |-> <<<<"Rathole", "Midland">>, <<"Rathole", "Levelland">>,
                       <<"Rathole", "Barstow">>, <<"Rathole", "Oklahoma">>,
                       <<"Rathole", "North Dakota">>, <<"Fencing", "">>,
                       <<"Anchors", "">>, <<"Environmental", "">>,
                       <<"Valor Energy Services", "">>>>],
      [name |-> "Leean Benevides", emails |-> <<"leean.benavides@brhas.com">>,
       divisions |-> <<<<"Rathole", "Jourdanton">>>>],
      [name |-> "Bernard Bradley", emails |-> <<"bbradley@brhas.com">>,
       divisions |-> <<<<"Butch's Trucking", "">>>>],
      [name |-> "Charley Langwell", emails |-> <<"clangwell@brhas.com">>,
       divisions |-> <<<<"Transcend Drilling", "">>>>],
      [name |-> "Kelly Rhodes", emails |-> <<"krhodes@brhas.com">>,
       divisions |-> <<<<"Downhole Tools", "">>>>]>>

YARD_DIVISIONS == {"Rathole", "Casing"}

\* _build_section_label(division, yard)
_build_section_label(division, yard) ==
    IF division \in YARD_DIVISIONS /\ yard # ""
    THEN division \o " - " \o yard \o " Yard"
    ELSE division

\* Variant of rep_sections: an event matches on its division alone.
rep_sections_by_division(rep, events) ==
    LET matching(p) == SelectSeq(events, LAMBDA e : e.division = p[1])
        with_events == SelectSeq(rep.divisions,
                                 LAMBDA p : matching(p) # <<>>)
    IN  [k \in 1..Len(with_events) |->
            [label |-> _build_section_label(with_events[k][1],
                                            with_events[k][2]),
             events |-> matching(with_events[k])]]

\* The sections main collects for one rep: for each pair of the rep, in
\* the rep's order, the events of that division and yard, if there are any.
rep_sections(rep, events) ==
    LET matching(p) == SelectSeq(events,
                          LAMBDA e : e.division = p[1] /\ e.yard = p[2])
        with_events == SelectSeq(rep.divisions,
                                 LAMBDA p : matching(p) # <<>>)
    IN  [k \in 1..Len(with_events) |->
            [label |-> _build_section_label(with_events[k][1],
                                            with_events[k][2]),
             events |-> matching(with_events[k])]]

\* _build_rep_email_html(sections): per section the heading with the label
\* and the count, and one table row per event, highest overspeed first.
_build_rep_email_html(sections) ==
    [k \in 1..Len(sections) |->
        LET evts == sections[k].events
            events_sorted ==
                StableSortBy(evts,
                             [i \in 1..Len(evts) |-> overspeed_desc(evts[i])])
        IN  [label |-> sections[k].label,
             count |-> Len(events_sorted),
             rows |-> events_sorted]]

\* _send_error_email(error_msg, report_date): the attempts to notify that
\* it makes; with no Gmail credentials it makes none. delivered says
\* whether sendmail handed the message over; every exception of the
\* attempt, before or after that, is caught and only printed.
_send_error_email(error_msg, creds, error_ok) ==
    IF ~creds THEN <<>>
    ELSE <<[to |-> <<"krhodes@brhas.com">>, error_msg |-> error_msg,
            delivered |-> error_ok]>>

\* The counters, the mail and the printed lines of main before the loop.
run_start ==
    [i |-> 1, sent_count |-> 0, skipped_count |-> 0, fail_count |-> 0,
     outbox |-> <<>>, error_mail |-> <<>>, log |-> <<>>]

\* Variant of distribute_rep: a failed send is reported but not counted.
distribute_rep_uncounted(run, rep, events, send, error_ok) ==
    LET sections == rep_sections(rep, events)
        email == [to |-> rep.emails, body |-> _build_rep_email_html(sections)]
    IN  IF sections = <<>>
        THEN [run EXCEPT !.i = @ + 1, !.skipped_count = @ + 1,
                         !.log = Append(@, [kind |-> "SKIP",
                                            name |-> rep.name])]
        ELSE IF send = "sent"
        THEN [run EXCEPT !.i = @ + 1, !.sent_count = @ + 1,
                         !.outbox = Append(@, email),
                         !.log = Append(@, [kind |-> "SENT",
                                            name |-> rep.name])]
        ELSE [run EXCEPT !.i = @ + 1,
                         !.outbox = IF send = "raised_after_sendmail"
                                    THEN Append(@, email) ELSE @,
                         !.error_mail = @ \o _send_error_email(
                            "Failed to send to " \o rep.name, TRUE, error_ok),
                         !.log = Append(@, [kind |-> "FAIL",
                                            name |-> rep.name])]

\* One pass of the loop of main, for the rep at hand: the rep is skipped
\* when no section has events; otherwise the email is built and sent, and
\* an exception of the sending is reported by _send_error_email.  send is
\* the course of the try block: "sent" when the `with` of smtplib.SMTP ends
\* without an exception, "raised" when an exception comes before sendmail
\* has handed the message over, "raised_after_sendmail" when sendmail has
\* returned and the end of the `with` raises (the server answers QUIT with
\* another code than 221): the rep has the email and the pass is a failure.
distribute_rep(run, rep, events, send, error_ok) ==
    LET sections == rep_sections(rep, events)
        email == [to |-> rep.emails, body |-> _build_rep_email_html(sections)]
    IN  IF sections = <<>>
        THEN [run EXCEPT !.i = @ + 1, !.skipped_count = @ + 1,
                         !.log = Append(@, [kind |-> "SKIP",
                                            name |-> rep.name])]
        ELSE IF send = "sent"
        THEN [run EXCEPT !.i = @ + 1, !.sent_count = @ + 1,
                         !.outbox = Append(@, email),
                         !.log = Append(@, [kind |-> "SENT",
                                            name |-> rep.name])]
        ELSE [run EXCEPT !.i = @ + 1, !.fail_count = @ + 1,
                         !.outbox = IF send = "raised_after_sendmail"
                                    THEN Append(@, email) ELSE @,
                         !.error_mail = @ \o _send_error_email(
                            "Failed to send to " \o rep.name, TRUE, error_ok),
                         !.log = Append(@, [kind |-> "FAIL",
                                            name |-> rep.name])]

MaxDistEvents == 2

\* The (division, yard) pairs of the events of a file: two pairs that two
\* reps share, two pairs of one rep each, one pair of no rep.
DistPairs ==
    {<<"Rathole", "Midland">>, <<"Transcend Drilling", "">>,
     <<"Casing", "Midland">>, <<"Casing", "Bryan">>, <<"Sales/Admin", "">>}

\* The events of the file, as enrich_event of the daily speeding report
\* leaves them; of the fields of a table row only the overspeed is kept.
DistEvent ==
    {[division |-> p[1], yard |-> p[2], overspeed |-> o] :
        p \in DistPairs, o \in {8, 21}}

\* main up to the loop: the events file of yesterday is read. Without the
\* file the error is reported and the script exits; without events or
\* without Gmail credentials it ends before the loop.
DistributeMain ==
    /\ pc = "start"
    /\ \E file_exists \in BOOLEAN, creds \in BOOLEAN, error_ok \in BOOLEAN :
         \E file \in SeqsUpTo(DistEvent, MaxDistEvents) :
            /\ file_exists \/ file = <<>>
            /\ dist_env' = [file_exists |-> file_exists, creds |-> creds]
            /\ dist_events' = file
            /\ IF ~file_exists
               THEN /\ dist_run' =
                          [run_start EXCEPT !.error_mail = _send_error_email(
                              "Distribution failed: file not found",
                              creds, error_ok)]
                    /\ pc' = "distribute_exit"
               ELSE /\ dist_run' = run_start
                    /\ pc' = IF file = <<>> \/ ~creds THEN "distribute_exit"
                             ELSE "distributing"
    /\ UNCHANGED <<coreVars, categoryVars, weekVars, pipelineVars, kpaVars, enrichVars, divisionVars, normVars, offenderVars, scoreVars, recVars, nameVars>>

\* One pass of the loop over SAFETY_REP_MAP; after the last rep main prints
\* the three counters.
DistributeRep ==
    /\ pc = "distributing"
    /\ dist_run.i <= Len(SAFETY_REP_MAP)
    /\ \E send \in {"sent", "raised", "raised_after_sendmail"},
          error_ok \in BOOLEAN :
         dist_run' = distribute_rep(dist_run, SAFETY_REP_MAP[dist_run.i],
                                    dist_events, send, error_ok)
    /\ pc' = IF dist_run.i = Len(SAFETY_REP_MAP) THEN "distributed"
             ELSE "distributing"
    /\ UNCHANGED <<dist_events, dist_env>>
    /\ UNCHANGED <<coreVars, categoryVars, weekVars, pipelineVars, kpaVars, enrichVars, divisionVars, normVars, offenderVars, scoreVars, recVars, nameVars>>

-----------------------------------------------------------------------------
(* The name-parsing loop of the enrich functions, pass by pass *)

\* The test of the while loop:
\* candidate and candidate.split(" ", 1)[0].replace("-", "").isdigit()
name_loop_test(candidate) ==
    candidate # "" /\ IsDigit(Remove(FirstToken(candidate), {"-"}))

\* Variant of name_loop_body: only the separators in front are dropped.
name_loop_body_separators_only(candidate) ==
    IF Contains(candidate, " ")
    THEN LStripChars(Strip(candidate), {"-", " "})
    ELSE ""

\* The body of the while loop: the first token and the separators after it
\* are dropped; a candidate of one token becomes empty.
name_loop_body(candidate) ==
    IF Contains(candidate, " ") THEN DropFirstToken(candidate) ELSE ""

MaxNameLen == 5

\* The characters of the vehicle numbers tried: a digit, a letter, the two
\* separators, and a vertical tab.
NameAlphabet == {"1", "a", "-", " ", ""}

\* The string of a tuple of characters.
RECURSIVE JoinChars(_)
JoinChars(t) == IF t = <<>> THEN "" ELSE Head(t) \o JoinChars(Tail(t))

\* The vehicle numbers: every string of up to MaxNameLen characters of the
\* alphabet, and numbers of the fleet with and without a name.
NameStrings ==
    {JoinChars(t) : t \in SeqsUpTo(NameAlphabet, MaxNameLen)}
    \cup {"5010C John Smith", "POL-2324PP - Yem Bobey", "5010C 22 - 7 Al Roy",
          "5010C 123", "5010C 12 34 56 78"}

\* The enrich function reaches the name parser with a vehicle number: with
\* a space in it the candidate is what follows the first token.
ParseNameStart ==
    /\ pc = "start"
    /\ \E vehicle_number \in NameStrings :
         /\ name_call' = vehicle_number
         /\ IF Contains(vehicle_number, " ")
            THEN /\ name_candidate' = DropFirstToken(vehicle_number)
                 /\ name_trace' = <<DropFirstToken(vehicle_number)>>
                 /\ name_out' = None
                 /\ pc' = "name_loop"
            ELSE /\ name_candidate' = ""
                 /\ name_trace' = <<>>
                 /\ name_out' = ""
                 /\ pc' = "name_parsed"
    /\ UNCHANGED <<coreVars, categoryVars, weekVars, pipelineVars, kpaVars, enrichVars, divisionVars, normVars, offenderVars, scoreVars, recVars, distVars>>

\* One pass of the while loop.
ParseNameStep ==
    /\ pc = "name_loop"
    /\ name_loop_test(name_candidate)
    /\ name_candidate' = name_loop_body(name_candidate)
    /\ name_trace' = Append(name_trace, name_loop_body(name_candidate))
    /\ UNCHANGED <<pc, name_call, name_out>>
    /\ UNCHANGED <<coreVars, categoryVars, weekVars, pipelineVars, kpaVars, enrichVars, divisionVars, normVars, offenderVars, scoreVars, recVars, distVars>>

\* The loop ends; the candidate is the name when it has more than two
\* characters and a letter.
ParseNameExit ==
    /\ pc = "name_loop"
    /\ ~name_loop_test(name_candidate)
    /\ name_out' =
          IF Len(name_candidate) > 2
             /\ \E i \in 1..Len(name_candidate) :
                   CharAt(name_candidate, i) \in Letters
          THEN name_candidate ELSE ""
    /\ pc' = "name_parsed"
    /\ UNCHANGED <<name_call, name_candidate, name_trace>>
    /\ UNCHANGED <<coreVars, categoryVars, weekVars, pipelineVars, kpaVars, enrichVars, divisionVars, normVars, offenderVars, scoreVars, recVars, distVars>>

-----------------------------------------------------------------------------
(* The state before any call *)

Init ==
    /\ pc = "start"
    /\ src = None
    /\ event_type = None
    /\ tier = None
    /\ raw_event = None
    /\ enriched = None
    /\ camera_events = <<>>
    /\ speeding_events = <<>>
    /\ kpa_incidents = <<>>
    /\ red_flags = <<>>
    /\ row = <<>>
    /\ findings = <<>>
    /\ categories = <<>>
    /\ status = None
    /\ assessments = <<>>
    /\ assessment_analysis = None
    /\ finding_text = None
    /\ category = None
    /\ now_utc = None
    /\ week_range = None
    /\ pipeline = None
    /\ raw_events = None
    /\ pipeline_clock = None
    /\ pipeline_result = None
    /\ kpa_call = None
    /\ kpa_rows = None
    /\ kpa_result = None
    /\ enrich_call = None
    /\ enrich_out = None
    /\ division_call = None
    /\ division_out = None
    /\ norm_call = None
    /\ norm_out = None
    /\ offender_call = None
    /\ offender_out = None
    /\ score_call = None
    /\ score_out = None
    /\ rec_analysis = None
    /\ rec_first = None
    /\ rec_second = None
    /\ dist_events = None
    /\ dist_env = None
    /\ dist_run = None
    /\ name_call = None
    /\ name_candidate = None
    /\ name_trace = None
    /\ name_out = None

SpecTier == Init /\ [][ClassifyTier]_vars

SpecSpeed == Init /\ [][EnrichSpeeding]_vars

SpecRedFlag == Init /\ [][AnalyzeRedFlags]_vars

SpecFindings == Init /\ [][AssessRow]_vars

SpecAssess == Init /\ [][AnalyzeAssessments]_vars

SpecCategorize == Init /\ [][CategorizeFinding]_vars

SpecWeek == Init /\ [][GetWeekRange]_vars

SpecPipeline == Init /\ [][RunPipeline]_vars

SpecKpa == Init /\ [][RunKpa]_vars

SpecEnrich == Init /\ [][EnrichOne]_vars

SpecDivision == Init /\ [][EnrichDivision]_vars

SpecNormalize == Init /\ [][NormalizeType]_vars

SpecOffenders == Init /\ [][RepeatOffenders]_vars

SpecScorecard == Init /\ [][YardScorecard]_vars

SpecCameraSort == Init /\ [][FetchCameraEvents]_vars

SpecDistribute == Init /\ [][DistributeMain \/ DistributeRep]_vars

SpecParseName ==
    Init /\ [][ParseNameStart \/ ParseNameStep \/ ParseNameExit]_vars

SpecRecommend ==
    Init /\ [][GenerateRecommendations \/ GenerateRecommendationsAgain]_vars

-----------------------------------------------------------------------------
(* Claims *)

\* C1: _classify_tier is total and follows the fixed membership table: for
\* every string it returns one of RED, ORANGE, YELLOW; RED exactly for the
\* ten collision-adjacent and inattention types, YELLOW exactly for
\* hard_accel, hard_corner and speed_violation, ORANGE for every other string.
C1_TierTable ==
    pc = "classified" =>
        /\ tier \in {"RED", "ORANGE", "YELLOW"}
        /\ tier = "RED" <=>
             event_type \in {"collision", "near_collision",
                             "forward_collision_warning", "distraction",
                             "cell_phone", "drowsiness", "stop_sign_violation",
                             "unsafe_lane_change", "lane_swerving",
                             "close_following"}
        /\ tier = "YELLOW" <=>
             event_type \in {"hard_accel", "hard_corner", "speed_violation"}

\* C1 witness: a string no table mentions has been classified, as ORANGE.
C1_Witness ==
    pc = "classified" /\ event_type = "u_turn" /\ src = "weekly" /\ tier = "ORANGE"

\* C2: the tier of a speeding event is RED if the converted overage is at
\* least 20 mph or the converted absolute speed at least 90 mph, otherwise
\* ORANGE if the overage is at least 15 mph, otherwise YELLOW; a speed missing
\* from the raw event counts as 0.
C2_SpeedTier ==
    pc = "enriched" =>
        LET overLimitMph     == enriched.overspeed
            absoluteSpeedMph == enriched.speed
        IN  /\ enriched.tier =
                 IF overLimitMph >= 200 \/ absoluteSpeedMph >= 900 THEN "RED"
                 ELSE IF overLimitMph >= 150 THEN "ORANGE"
                 ELSE "YELLOW"
            /\ (raw_event.max_vehicle_speed = NoneNum
                /\ raw_event.avg_vehicle_speed = NoneNum)
                  => absoluteSpeedMph = 0
            /\ (raw_event.max_over_speed_in_kph = NoneNum
                /\ raw_event.avg_over_speed_in_kph = NoneNum)
                  => overLimitMph = 0

\* C2 witness: an event at exactly 90.0 mph whose overage is below 15 mph has
\* been enriched by the weekly briefing and is RED.
C2_Witness ==
    /\ pc = "enriched" /\ src = "weekly"
    /\ enriched.speed = 900 /\ enriched.overspeed < 150
    /\ enriched.tier = "RED"

\* The number of camera events, speeding events and KPA incidents of the
\* arguments that carry the driver name d.
CamCountOf(d) ==
    Cardinality({i \in 1..Len(camera_events) : camera_events[i].driver = d})
SpdCountOf(d) ==
    Cardinality({i \in 1..Len(speeding_events) : speeding_events[i].driver = d})
KpaCountOf(d) ==
    Cardinality({i \in 1..Len(kpa_incidents) : kpa_incidents[i].name = d})

\* The named drivers of the arguments.
NamedDrivers ==
    ({camera_events[i].driver : i \in 1..Len(camera_events)}
     \cup {speeding_events[i].driver : i \in 1..Len(speeding_events)})
    \ {"Unknown"}

\* The positions of the returned records named d.
RecordsOf(d) == {i \in 1..Len(red_flags) : red_flags[i].name = d}

\* C3: a named driver with no KPA incident is in the returned list if and
\* only if the driver has a camera and a speeding event, or 3 or more camera
\* events, or 5 or more speeding events; the record's camera_count and
\* speeding_count are the numbers of input events carrying that name.
C3_FlagRules ==
    pc = "analyzed" =>
        \A d \in NamedDrivers :
            KpaCountOf(d) = 0 =>
                /\ RecordsOf(d) # {} <=>
                      \/ CamCountOf(d) >= 1 /\ SpdCountOf(d) >= 1
                      \/ CamCountOf(d) >= 3
                      \/ SpdCountOf(d) >= 5
                /\ \A i \in RecordsOf(d) :
                      /\ red_flags[i].camera_count = CamCountOf(d)
                      /\ red_flags[i].speeding_count = SpdCountOf(d)

\* C3 witness: a driver with exactly 3 camera events, no speeding event and
\* no KPA incident has been flagged, beside a driver with 2 camera events who
\* has not.
C3_Witness ==
    /\ pc = "analyzed" /\ kpa_incidents = <<>>
    /\ CamCountOf("Bob") = 3 /\ SpdCountOf("Bob") = 0 /\ RecordsOf("Bob") # {}
    /\ CamCountOf("Ann") = 1 /\ SpdCountOf("Ann") = 0 /\ RecordsOf("Ann") = {}

\* C4: a named driver with at least one camera event and at least one KPA
\* incident among kpa_incidents is flagged, also with fewer than 3 camera
\* events and no speeding event; kpa_count is the number of the driver's KPA
\* incidents and total = camera_count + speeding_count + kpa_count.
C4_KpaRule ==
    pc = "analyzed" =>
        \A d \in NamedDrivers :
            (CamCountOf(d) >= 1 /\ KpaCountOf(d) >= 1) =>
                /\ RecordsOf(d) # {}
                /\ \A i \in RecordsOf(d) :
                      /\ red_flags[i].kpa_count = KpaCountOf(d)
                      /\ red_flags[i].total =
                            red_flags[i].camera_count
                            + red_flags[i].speeding_count
                            + red_flags[i].kpa_count

\* C5: no returned record is named "Unknown"; every record's counts are the
\* counts of the events carrying its own name, and the result is the one
\* obtained from the lists without their "Unknown" events, however many
\* there are.
C5_UnknownExcluded ==
    pc = "analyzed" =>
        /\ \A i \in 1..Len(red_flags) :
              /\ red_flags[i].name # "Unknown"
              /\ red_flags[i].camera_count = CamCountOf(red_flags[i].name)
              /\ red_flags[i].speeding_count = SpdCountOf(red_flags[i].name)
              /\ red_flags[i].total =
                    red_flags[i].camera_count + red_flags[i].speeding_count
                    + red_flags[i].kpa_count
        /\ red_flags =
              analyze_red_flag_drivers(
                  SelectSeq(camera_events, LAMBDA e : e.driver # "Unknown"),
                  SelectSeq(speeding_events, LAMBDA e : e.driver # "Unknown"),
                  kpa_incidents)

\* C5 witness: 3 camera events and 5 speeding events of "Unknown" (enough to
\* flag a named driver under each rule) and one camera event of a named
\* driver were analysed, and nobody is flagged.
C5_Witness ==
    /\ pc = "analyzed"
    /\ CamCountOf("Unknown") = 3 /\ SpdCountOf("Unknown") = 5
    /\ CamCountOf("Ann") = 1
    /\ red_flags = <<>>

\* The action the first matching rule gives driver d.
ExpectedAction(d) ==
    LET types == {camera_events[i].event_type :
                     i \in {j \in 1..Len(camera_events) :
                               camera_events[j].driver = d}}
    IN  CASE "drowsiness" \in types \/ "lane_swerving" \in types
               -> ACTION_FATIGUE
          [] "distraction" \in types \/ "cell_phone" \in types
               -> ACTION_DISTRACTION
          [] SpdCountOf(d) >= 5 -> ACTION_SPEED
          [] CamCountOf(d) >= 3 /\ SpdCountOf(d) >= 1 -> ACTION_MULTIPLE
          [] OTHER -> ACTION_GENERIC

\* C6: the action of a flagged driver is that of the first matching rule in
\* the order fatigue, distraction, 5 or more speeding events, 3 or more
\* camera events with a speeding event, generic; a driver with 4 camera
\* events of no fatigue or distraction type, no speeding event and no KPA
\* incident is flagged with the generic action.
C6_ActionPriority ==
    pc = "analyzed" =>
        /\ \A i \in 1..Len(red_flags) :
              red_flags[i].action = ExpectedAction(red_flags[i].name)
        /\ \A d \in NamedDrivers :
              (/\ CamCountOf(d) = 4 /\ SpdCountOf(d) = 0 /\ KpaCountOf(d) = 0
               /\ \A i \in 1..Len(camera_events) :
                     camera_events[i].driver = d =>
                        camera_events[i].event_type \notin
                           {"drowsiness", "lane_swerving",
                            "distraction", "cell_phone"})
              => \E i \in RecordsOf(d) : red_flags[i].action = ACTION_GENERIC

\* C6 witness: a driver with 4 hard_brake camera events and nothing else has
\* been flagged with the generic action.
C6_Witness ==
    /\ pc = "analyzed"
    /\ CamCountOf("Ann") = 4 /\ SpdCountOf("Ann") = 0 /\ KpaCountOf("Ann") = 0
    /\ \A i \in 1..Len(camera_events) :
          camera_events[i].event_type = "hard_brake"
    /\ \E i \in RecordsOf("Ann") : red_flags[i].action = ACTION_GENERIC

\* The row holds the text t in a free-text column and nothing else outside
\* its metadata columns: t is its only non-metadata text.
OnlyText(r, t) ==
    \E i \in 1..Len(r) :
        /\ r[i].val = t
        /\ r[i].key \in {"comments", "notes"}
        /\ \A j \in (1..Len(r)) \ {i} :
              r[j].val = "" \/ r[j].key \in _KPA_META_FIELDS

HasPositivePhrase(t) == AnyIn(_POSITIVE_PHRASES, Lower(Strip(t)))
HasPositivePrefix(t) ==
    \E i \in 1..Len(_POSITIVE_PREFIXES) :
        StartsWith(Lower(Strip(t)), _POSITIVE_PREFIXES[i])
HasCorrective(t) == AnyIn(_CORRECTIVE_KEYWORDS, Lower(Strip(t)))

\* The corrective keywords the cell texts append to a positive observation.
AppendedKeywords == {" found"}

\* C7 as claimed: a row whose only non-metadata text is a positive
\* observation (a known positive phrase, or a positive prefix) with no
\* corrective keyword yields no finding, and the same text with a corrective
\* keyword appended yields exactly one finding.
C7_Original ==
    pc = "row_assessed" =>
        \A t \in FieldTexts :
            ((HasPositivePhrase(t) \/ HasPositivePrefix(t)) /\ ~HasCorrective(t))
            => /\ OnlyText(row, t) => findings = <<>>
               /\ \A k \in AppendedKeywords :
                     OnlyText(row, t \o k) => Len(findings) = 1

\* C7 amended: a row whose only non-metadata text contains a phrase of
\* _POSITIVE_PHRASES yields no finding, with or without a corrective keyword;
\* a text that starts with a positive prefix and contains no positive phrase
\* yields no finding without a corrective keyword and exactly one finding,
\* the text itself, with a corrective keyword appended.
C7_PositiveObservation ==
    pc = "row_assessed" =>
        \A t \in FieldTexts :
            OnlyText(row, t) =>
                /\ HasPositivePhrase(t) => findings = <<>>
                /\ (HasPositivePrefix(t) /\ ~HasPositivePhrase(t)
                    /\ ~HasCorrective(t)) => findings = <<>>
                /\ (/\ HasPositivePrefix(t) /\ ~HasPositivePhrase(t)
                    /\ \E b \in FieldTexts, k \in AppendedKeywords :
                          t = b \o k /\ ~HasCorrective(b) /\ HasCorrective(k))
                   => findings = <<Strip(t)>>

\* C7 witness: the only text of the row is a positive phrase with a
\* corrective keyword appended, and the row has no finding.
C7_Witness ==
    /\ pc = "row_assessed"
    /\ row = <<Field("comments", "Good housekeeping" \o " found")>>
    /\ findings = <<>>

HasCorrectedPhrase(t) == Contains(Lower(t), "corrected on site")
HasFollowUpPhrase(t) ==
    \/ Contains(Lower(t), "follow up")
    \/ Contains(Lower(t), "follow-up")
    \/ Contains(Lower(t), "requires follow")

\* The row with its columns in the opposite order.
ReversedRow(r) == [i \in 1..Len(r) |-> r[Len(r) + 1 - i]]

\* C8: the status is CorrectedOnSite if any field contains "corrected on
\* site"; otherwise RequiresFollowUp if any field contains "follow up",
\* "follow-up" or "requires follow"; otherwise the explicit status field if
\* present; otherwise Open.  It does not depend on the order of the fields
\* and is always one of Open, CorrectedOnSite, RequiresFollowUp.
C8_StatusPriority ==
    (pc = "row_assessed" /\ findings # <<>>) =>
        /\ status =
              IF \E i \in 1..Len(row) : HasCorrectedPhrase(row[i].val)
              THEN "Corrected on site"
              ELSE IF \E i \in 1..Len(row) : HasFollowUpPhrase(row[i].val)
              THEN "Requires follow-up"
              ELSE IF Strip(RowGet(row, "status", "")) # ""
              THEN Strip(RowGet(row, "status", ""))
              ELSE "Open"
        /\ status = _get_assessment_status(ReversedRow(row))
        /\ status \in {"Open", "Corrected on site", "Requires follow-up"}

\* The text of scenario 5 of the specification.
PPE_NOT_WORN == "Proper PPE was not worn, replaced on site"

\* C9 as claimed: the row whose only non-metadata text is "Proper PPE was
\* worn" has no finding; with "Proper PPE was not worn, replaced on site" it
\* has exactly one finding, of category BEHAVIORAL/COMPLIANCE, and the
\* status CorrectedOnSite.
C9_Original ==
    pc = "row_assessed" =>
        /\ OnlyText(row, "Proper PPE was worn") =>
              findings = <<>> /\ categories = <<>>
        /\ OnlyText(row, PPE_NOT_WORN) =>
              /\ findings = <<PPE_NOT_WORN>>
              /\ categories = <<[category |-> "BEHAVIORAL/COMPLIANCE",
                                 findings |-> <<PPE_NOT_WORN>>]>>
              /\ status = "Corrected on site"

\* C9 amended: the row whose only non-metadata text is "Proper PPE was worn"
\* has no finding; with "Proper PPE was not worn, replaced on site" it has
\* exactly one finding, of category BEHAVIORAL/COMPLIANCE, and the text
\* decides no status ("replaced on site" is no status phrase): unless
\* another field holds a status phrase, the status is the explicit status
\* field if present and Open otherwise.
C9_PpeScenario ==
    pc = "row_assessed" =>
        /\ OnlyText(row, "Proper PPE was worn") =>
              findings = <<>> /\ categories = <<>>
        /\ OnlyText(row, PPE_NOT_WORN) =>
              /\ findings = <<PPE_NOT_WORN>>
              /\ categories = <<[category |-> "BEHAVIORAL/COMPLIANCE",
                                 findings |-> <<PPE_NOT_WORN>>]>>
              /\ (\A i \in 1..Len(row) :
                     ~HasCorrectedPhrase(row[i].val)
                     /\ ~HasFollowUpPhrase(row[i].val))
                 => status = IF Strip(RowGet(row, "status", "")) # ""
                             THEN Strip(RowGet(row, "status", ""))
                             ELSE "Open"

\* C9 witness: the row holding only "Proper PPE was not worn, replaced on
\* site" has one finding and the status Open.
C9_Witness ==
    /\ pc = "row_assessed"
    /\ row = <<Field("comments", PPE_NOT_WORN)>>
    /\ findings = <<PPE_NOT_WORN>>
    /\ status = "Open"

\* How often x occurs in the sequence s.
Occurrences(s, x) == Cardinality({i \in 1..Len(s) : s[i] = x})

\* The positions of the input rows with findings, and of those without.
WithPositions ==
    {i \in 1..Len(assessments) : _extract_findings(assessments[i]) # <<>>}
CleanPositions == (1..Len(assessments)) \ WithPositions

\* The position in the input of the k-th element of the set P of positions.
NthOf(P, k) == CHOOSE i \in P : Cardinality({j \in P : j <= i}) = k

\* C10: analyze_field_assessments partitions its input: the rows with an
\* empty findings list are the records of clean and the others the records
\* of with_findings, each row in exactly one list, in input order; every
\* with_findings record stores under its categories exactly the strings of
\* its findings list, each string under one category only, none lost and
\* none duplicated; len(clean) + len(with_findings) is the number of rows.
C10_Partition ==
    pc = "assessed" =>
        LET a == assessment_analysis
        IN  /\ Len(a.with_findings) = Cardinality(WithPositions)
            /\ Len(a.clean) = Cardinality(CleanPositions)
            /\ Len(a.clean) + Len(a.with_findings) = Len(assessments)
            /\ \A k \in 1..Len(a.with_findings) :
                  LET w == a.with_findings[k]
                      r == assessments[NthOf(WithPositions, k)]
                  IN  /\ w.findings = _extract_findings(r)
                      /\ w.findings # <<>>
                      /\ w.report_num = RowGet(r, "report number", "N/A")
                      /\ \A c \in 1..Len(w.categories) :
                            w.categories[c].findings # <<>>
                      /\ \A c, d \in 1..Len(w.categories) :
                            c # d =>
                               /\ w.categories[c].category
                                     # w.categories[d].category
                               /\ Range(w.categories[c].findings)
                                     \cap Range(w.categories[d].findings) = {}
                      /\ \A x \in Range(w.findings) :
                            \E c \in 1..Len(w.categories) :
                               Occurrences(w.categories[c].findings, x)
                                  = Occurrences(w.findings, x)
                      /\ \A c \in 1..Len(w.categories) :
                            Range(w.categories[c].findings)
                               \subseteq Range(w.findings)
            /\ \A k \in 1..Len(a.clean) :
                  LET r == assessments[NthOf(CleanPositions, k)]
                  IN  /\ _extract_findings(r) = <<>>
                      /\ a.clean[k].report_num
                            = RowGet(r, "report number", "N/A")

\* C10 witness: a call with a clean row, a row whose two findings fall in
\* two categories and a row with the same finding text twice.
C10_Witness ==
    /\ pc = "assessed"
    /\ Len(assessments) = 3
    /\ Len(assessment_analysis.clean) = 1
    /\ \E k \in 1..Len(assessment_analysis.with_findings) :
          Len(assessment_analysis.with_findings[k].categories) = 2
    /\ \E k \in 1..Len(assessment_analysis.with_findings) :
          LET f == assessment_analysis.with_findings[k].findings
          IN  Len(f) = 2 /\ f[1] = f[2]

\* The keyword score of a text for the category of a given rank.
ScoreOf(rank, t) ==
    Score(CASE rank = 1 -> _EQUIP_KEYWORDS
            [] rank = 2 -> _BEHAVIOR_KEYWORDS
            [] rank = 3 -> _HOUSEKEEPING_KEYWORDS
            [] OTHER    -> _DOC_KEYWORDS, Lower(t))

RankOf(cat) == CHOOSE i \in 1..4 : CATEGORY_ORDER[i] = cat

\* C11: _categorize_finding returns one of the four categories; the
\* returned category has the highest keyword score of the four; when every
\* score is zero the result is BEHAVIORAL/COMPLIANCE; when several
\* categories tie at the highest positive score the result is the first of
\* them in the category order, so it is the same on every call.
C11_Categorize ==
    pc = "categorized" =>
        /\ category \in Range(CATEGORY_ORDER)
        /\ \A j \in 1..4 : ScoreOf(j, finding_text) <= ScoreOf(RankOf(category), finding_text)
        /\ (\A j \in 1..4 : ScoreOf(j, finding_text) = 0)
              => category = "BEHAVIORAL/COMPLIANCE"
        /\ (\E j \in 1..4 : ScoreOf(j, finding_text) > 0)
              => \A j \in 1..(RankOf(category) - 1) :
                    ScoreOf(j, finding_text) < ScoreOf(RankOf(category), finding_text)

\* C11 witness: housekeeping and documentation tie at the highest positive
\* score and the first of the two is returned.
C11_Witness ==
    /\ pc = "categorized"
    /\ ScoreOf(3, finding_text) = 1 /\ ScoreOf(4, finding_text) = 1
    /\ ScoreOf(1, finding_text) = 0 /\ ScoreOf(2, finding_text) = 0
    /\ category = "HOUSEKEEPING/SITE CONDITIONS"

\* The local date and time of the clock reading.
NowCentral == astimezone_central(now_utc)

\* C12: for every clock reading, on every weekday, the window of
\* get_week_range starts on a Monday at 00:00:00 local time and ends on the
\* Sunday six days later at 23:59:59 local time; it is the week immediately
\* before the week that contains now: its Sunday is strictly before now's
\* date, it never contains now, and when now is a Monday it starts exactly
\* 7 days before now's date.
C12_WeekRange ==
    pc = "week_computed" =>
        LET today == NowCentral.day
            this_monday == today - weekday(today)
            w == week_range
        IN  /\ weekday(w.start_ct.day) = 0
            /\ w.start_ct.sec = 0
            /\ w.end_ct.day = w.start_ct.day + 6
            /\ weekday(w.end_ct.day) = 6
            /\ w.end_ct.sec = 23 * 3600 + 59 * 60 + 59
            /\ w.start_ct.day = this_monday - 7
            /\ w.end_ct.day < today
            /\ ~(DtLeq(w.start_ct, NowCentral) /\ DtLeq(NowCentral, w.end_ct))
            /\ weekday(today) = 0 => w.start_ct.day = today - 7
            /\ w.last_monday = w.start_ct.day
            /\ w.last_sunday = w.end_ct.day

\* C12 witness: the clock reads Monday, February 16, 2026 local time and
\* the window is February 9 to February 15.
C12_Witness ==
    /\ pc = "week_computed"
    /\ NowCentral.day = FIRST_DAY
    /\ weekday(NowCentral.day) = 0
    /\ week_range.start_ct = DateTime(FIRST_DAY - 7, 0, 0, 0)
    /\ week_range.end_ct = DateTime(FIRST_DAY - 1, 23, 59, 59)

\* The time string the pipeline that ran reads from a raw event.
TimeStrOf(evt) ==
    IF pipeline \in {"weekly_speeding", "daily_speeding"}
    THEN speeding_time_str(evt) ELSE camera_time_str(evt)

Unparseable(evt) == ~parse_utc(TimeStrOf(evt)).ok

\* The enriched record the pipeline that ran makes of a raw event.
EnrichedOf(evt) ==
    CASE pipeline = "weekly_speeding" ->
            _enrich_speeding_event_full(evt, PIPELINE_DRIVERS, PIPELINE_YARDS)
      [] pipeline = "weekly_camera" ->
            _enrich_camera_event(evt, PIPELINE_DRIVERS, PIPELINE_YARDS,
                                 camera_raw_type(evt))
      [] pipeline = "daily_camera" ->
            enrich_camera_event(evt, PIPELINE_DRIVERS, PIPELINE_YARDS,
                                camera_raw_type(evt))
      [] OTHER -> enrich_event(evt, PIPELINE_DRIVERS, PIPELINE_GROUPS)

\* The vehicle of the event passes the Casing filter (the daily speeding
\* pipeline reports every division and has no such filter).
VehiclePasses(evt) ==
    pipeline = "daily_speeding" \/ evt.vehicle.number \in CASING_FLEET

RawPositions == 1..Len(raw_events)

\* C13: an event whose timestamp is missing or cannot be parsed is not
\* removed by the time filter: if its vehicle passes the vehicle filter, its
\* enriched record is in the returned list, once for each such raw event,
\* and carries a tier.
C13_UnparsedKept ==
    (pc = "piped" /\ ~pipeline_result.raised) =>
        \A i \in RawPositions :
            (Unparseable(raw_events[i]) /\ VehiclePasses(raw_events[i])) =>
                LET r == EnrichedOf(raw_events[i])
                IN  /\ r.tier \in {"RED", "ORANGE", "YELLOW"}
                    /\ Occurrences(pipeline_result.events, r)
                         >= Cardinality({j \in RawPositions :
                                /\ Unparseable(raw_events[j])
                                /\ EnrichedOf(raw_events[j]) = r})

\* A weekly camera answer of an event without a parseable time, which is
\* reported, and an event of the week before, which is not.
C13_Witness ==
    /\ pc = "piped" /\ pipeline = "weekly_camera"
    /\ Len(raw_events) = 2
    /\ Unparseable(raw_events[1]) /\ VehiclePasses(raw_events[1])
    /\ ~Unparseable(raw_events[2])
    /\ ~pipeline_result.raised
    /\ pipeline_result.events = <<EnrichedOf(raw_events[1])>>

\* A timestamp inside the report window of the pipeline that ran.
TimeInWindow ==
    IF pipeline \in {"weekly_speeding", "weekly_camera"}
    THEN "2026-03-05T18:00:00Z" ELSE "2026-03-10T18:00:00Z"

\* The raw events with every timestamp that cannot be parsed replaced by one
\* inside the report window.
RepairedEvents ==
    [i \in RawPositions |->
        IF Unparseable(raw_events[i])
        THEN [raw_events[i] EXCEPT !.start_time = TimeInWindow]
        ELSE raw_events[i]]

\* C14: an event whose timestamp could not be parsed is surfaced as a
\* data-quality condition: the counts the pipeline prints differ from the
\* counts of the same answer with parseable timestamps inside the window,
\* so that the failure leaves a trace in the log.
C14_ParseFailureSignalled ==
    (/\ pc = "piped" /\ ~pipeline_result.raised
     /\ \E i \in RawPositions : Unparseable(raw_events[i])) =>
        pipeline_result.log
            # run_pipeline(pipeline, RepairedEvents, pipeline_clock).log

\* The closed local interval of the report: the week before the run for the
\* weekly briefing, the day before the run for the daily reports.
ReportWindow ==
    IF pipeline \in {"weekly_speeding", "weekly_camera"}
    THEN [start |-> get_week_range(pipeline_clock).start_ct,
          end |-> get_week_range(pipeline_clock).end_ct]
    ELSE [start |-> DateTime(yesterday_of(pipeline_clock), 0, 0, 0),
          end |-> DateTime(yesterday_of(pipeline_clock), 23, 59, 59)]

\* The local time of a parseable event lies in the report window.
InReportWindow(evt) ==
    LET parsed == parse_utc(TimeStrOf(evt))
        local == astimezone_central(parsed.utc)
    IN  /\ DtLeq(ReportWindow.start, local)
        /\ DtLeq(local, ReportWindow.end)
        /\ ~(local = ReportWindow.end /\ parsed.microsecond > 0)

\* C16: in each of the four pipelines the returned list holds the record of
\* an event with a parseable timestamp only when its local time lies in the
\* closed local report window: every record occurs as often as there are raw
\* events giving it whose vehicle passes and whose time is in the window or
\* cannot be parsed.
C16_LocalWindow ==
    (pc = "piped" /\ ~pipeline_result.raised) =>
        \A i \in RawPositions :
            ~Unparseable(raw_events[i]) =>
                LET r == EnrichedOf(raw_events[i])
                IN  Occurrences(pipeline_result.events, r)
                      = Cardinality({j \in RawPositions :
                            /\ EnrichedOf(raw_events[j]) = r
                            /\ VehiclePasses(raw_events[j])
                            /\ \/ Unparseable(raw_events[j])
                               \/ InReportWindow(raw_events[j])})

\* The rows the call handed on to the analysis functions.
KpaRowsOut ==
    CASE kpa_call = "weekly_incidents" -> kpa_result.incidents
      [] kpa_call = "weekly_observations" -> kpa_result.observations
      [] kpa_call = "weekly_assessments" -> kpa_result.assessments
      [] OTHER -> IF kpa_result = None THEN <<>> ELSE kpa_result.rows

\* C15: a KPA row (not the repeated header row) whose date cannot be parsed
\* stays among the rows handed to the analysis functions.
C15_UnparsedDateKept ==
    pc = "kpa_pulled" =>
        \A i \in 1..Len(kpa_rows) :
            (/\ GetOr(kpa_rows[i].report_number, None) # "Report Number"
             /\ ~strptime_kpa(GetOr(kpa_rows[i].date, "")).ok) =>
                \E k \in 1..Len(KpaRowsOut) :
                    /\ KpaRowsOut[k].report_number = kpa_rows[i].report_number
                    /\ KpaRowsOut[k].date = kpa_rows[i].date

\* The vehicle number the enrich function reads from the raw event of the
\* call, where it is a text.
CallVehicleNumber == enrich_out.vehicle

\* The non-empty entry of the lookup map for the vehicle number, else "".
CallLookupName ==
    IF /\ CallVehicleNumber \in DOMAIN enrich_call.vehicle_drivers
       /\ enrich_call.vehicle_drivers[CallVehicleNumber] # ""
    THEN enrich_call.vehicle_drivers[CallVehicleNumber] ELSE ""

\* A name of the driver object as the object gives it: nothing when the
\* name is absent or null.
NamePart(v) == IF v \in {Missing, Null} THEN "" ELSE v

\* The "first last" name the embedded driver object gives, else "".
CallEmbeddedName ==
    LET drv == enrich_call.evt.driver
    IN  IF drv.tag = "dict"
        THEN Strip(NamePart(drv.first_name) \o " "
                   \o NamePart(drv.last_name))
        ELSE ""

\* C17: in each of the four enrich functions the driver is the non-empty
\* lookup entry of the vehicle number; else the non-empty name of the
\* embedded driver object; else the name parsed from the vehicle number;
\* else "Unknown"; it is never empty.
C17_DriverPriority ==
    (pc = "enriched_one" /\ ~enrich_out.raised) =>
        /\ enrich_out.driver # ""
        /\ enrich_out.driver =
              IF CallLookupName # "" THEN CallLookupName
              ELSE IF CallEmbeddedName # "" THEN CallEmbeddedName
              ELSE IF parse_driver_name(CallVehicleNumber) # ""
              THEN parse_driver_name(CallVehicleNumber)
              ELSE "Unknown"

\* The raw event holds texts where texts are expected: it has a vehicle,
\* and the names of the driver object and the vehicle number are no nulls.
CallNamesAreTexts ==
    /\ enrich_call.evt.vehicle.tag # "null"
    /\ enrich_call.evt.driver.first_name # Null
    /\ enrich_call.evt.driver.last_name # Null
    /\ enrich_call.evt.vehicle.number # Null

HasDigit(s) == \E i \in 1..Len(s) : CharAt(s, i) \in Digits

\* The remainder of a vehicle number after its leading tokens that hold a
\* digit, and the blanks and hyphens after them, are stripped; blanks at
\* its end do not count.
RECURSIVE StripLeadingCodes(_)
StripLeadingCodes(s) ==
    IF s # "" /\ HasDigit(FirstToken(s))
    THEN StripLeadingCodes(
            LStripChars(SubSeq(s, Len(FirstToken(s)) + 1, Len(s)),
                        Whitespace \cup {"-"}))
    ELSE RStrip(s)

\* C18: when neither the lookup map nor the driver object gives a name, the
\* driver is the remainder of the vehicle number after its leading numeric
\* and alphanumeric tokens and their separators, if that remainder has at
\* least 3 characters and a letter, and "Unknown" otherwise.
C18_ParsedName ==
    (/\ pc = "enriched_one" /\ ~enrich_out.raised /\ CallNamesAreTexts
     /\ CallLookupName = "" /\ CallEmbeddedName = "") =>
        LET remainder == StripLeadingCodes(CallVehicleNumber)
        IN  enrich_out.driver =
                IF /\ Len(remainder) >= 3
                   /\ \E i \in 1..Len(remainder) :
                         CharAt(remainder, i) \in Letters
                THEN remainder ELSE "Unknown"

\* C19: no enrich function raises, whatever the raw event: a null vehicle
\* gives the vehicle "Unknown", and every result has a driver and a vehicle
\* that are texts.
C19_NeverRaises ==
    pc = "enriched_one" =>
        /\ ~enrich_out.raised
        /\ enrich_call.evt.vehicle.tag = "null" =>
              enrich_out.vehicle = "Unknown"
        /\ enrich_out.vehicle # Null

\* The vehicle number of the call, in upper case, and the (division, yard)
\* of the result.
DivisionVn == Upper(division_call.vehicle_number)
DivisionOut == <<division_out.division, division_out.yard>>

GroupHit == division_call.vehicle_number \in DOMAIN division_call.vehicle_groups

\* The entries of VEHICLE_PREFIX_MAP whose prefix starts the vehicle number.
PrefixHits ==
    {i \in 1..Len(VEHICLE_PREFIX_MAP) :
        StartsWith(DivisionVn, VEHICLE_PREFIX_MAP[i][1])}

FirstPrefixHit == CHOOSE i \in PrefixHits : \A j \in PrefixHits : i <= j

\* Group lookup, then the first matching prefix, then the digits-and-C
\* convention, then Unassigned.
LookupPrefixCasing ==
    IF GroupHit
    THEN division_call.vehicle_groups[division_call.vehicle_number]
    ELSE IF PrefixHits # {}
    THEN <<VEHICLE_PREFIX_MAP[FirstPrefixHit][2],
           VEHICLE_PREFIX_MAP[FirstPrefixHit][3]>>
    ELSE IF _CASING_RE_match(DivisionVn) THEN <<"Casing", "">>
    ELSE <<"Unassigned", "">>

\* C20 as stated: the division and yard are those of the group lookup, else
\* of the first matching prefix, else Casing for digits followed by C, else
\* Unassigned, and no other rule overrides a lookup hit or a prefix.
C20_Original ==
    pc = "division_resolved" => DivisionOut = LookupPrefixCasing

\* C20: a vehicle of SALES_ADMIN_VEHICLES is ("Sales/Admin", "") whatever
\* the group lookup holds; otherwise the group lookup entry is used;
\* otherwise a vehicle number containing SHAWNEE (in any case) is
\* ("Rathole", "Oklahoma") whatever prefix it has; otherwise the first
\* matching prefix (compared in upper case), then the digits-and-C
\* convention, then ("Unassigned", "").
C20_DivisionYard ==
    pc = "division_resolved" =>
        DivisionOut =
            IF division_call.vehicle_number \in SALES_ADMIN_VEHICLES
            THEN <<"Sales/Admin", "">>
            ELSE IF ~GroupHit /\ Contains(DivisionVn, "SHAWNEE")
            THEN <<"Rathole", "Oklahoma">>
            ELSE LookupPrefixCasing

\* The Sales/Admin vehicle with an entry in the group lookup.
C20_Witness ==
    /\ pc = "division_resolved"
    /\ division_call.vehicle_number \in SALES_ADMIN_VEHICLES
    /\ GroupHit
    /\ DivisionOut = <<"Sales/Admin", "">>

\* The synonym table of the script of the call.
CallTable ==
    IF norm_call.src = "weekly" THEN EVENT_TYPE_NORMALIZE
    ELSE EVENT_TYPE_NORMALIZE_daily

CallTableKeys == {kv[1] : kv \in Range(CallTable)}

\* A raw string has no content: null, empty, or whitespace only.
IsBlank(raw) == raw \in {Null, ""} \/ Strip(raw) = ""

Separators == {" ", "-", "_"}

\* Two strings differ only in letter case, surrounding whitespace, and in
\* which of space, hyphen, underscore separates their words.
SameSpelling(a, b) ==
    LET x == Strip(a)
        y == Strip(b)
    IN  /\ Len(x) = Len(y)
        /\ \A i \in 1..Len(x) :
              \/ Lower(CharAt(x, i)) = Lower(CharAt(y, i))
              \/ {CharAt(x, i), CharAt(y, i)} \subseteq Separators

\* C21: _normalize_event_type gives "unknown" for a null, empty or blank
\* input and never the empty string; a raw string spelled like a key of the
\* synonym table (up to letter case, surrounding whitespace and the
\* separator characters) gives the table's value for that key; any other
\* raw string gives its own lower-case, trimmed, underscore-separated form.
C21_Canonical ==
    pc = "normalized" =>
       LET raw == norm_call.raw_type
           out == norm_out.event_type
       IN  /\ out # ""
           /\ IsBlank(raw) => out = "unknown"
           /\ ~IsBlank(raw) =>
                 /\ \A k \in CallTableKeys :
                       SameSpelling(raw, k) => out = TableGet(CallTable, k, k)
                 /\ (\A k \in CallTableKeys : ~SameSpelling(raw, k)) =>
                       /\ SameSpelling(raw, out)
                       /\ out = Lower(out)
                       /\ \A i \in 1..Len(out) :
                             CharAt(out, i) \notin {" ", "-"}

\* The canonical type of a string, by the script of the call.
CallNormalize(x) ==
    IF norm_call.src = "weekly" THEN _normalize_event_type(x)
    ELSE _normalize_event_type_daily(x)

\* C22: canonicalization is idempotent: whatever the raw string, a key of
\* the synonym table, a spelling of one or a string no table knows,
\* canonicalizing a canonical type that is not empty again returns it
\* unchanged; and every value of the table is a key of the table that maps
\* to itself.
C22_Idempotent ==
    pc = "normalized" =>
       /\ norm_out.event_type # "" =>
             CallNormalize(norm_out.event_type) = norm_out.event_type
       /\ \A kv \in Range(CallTable) :
             /\ kv[2] \in CallTableKeys
             /\ TableGet(CallTable, kv[2], "") = kv[2]

\* A synonym (not a canonical name) in a raw spelling was canonicalized.
C22_Witness ==
    /\ pc = "normalized"
    /\ norm_call.raw_type = "AGGREGATED_LANE_SWERVING"
    /\ norm_out.event_type = "lane_swerving"

\* C30: the daily camera report and the weekly briefing classify alike: the
\* canonical type of a raw string may differ between the two scripts, the
\* tier never does.
C30_SameTier ==
    pc = "normalized" =>
       /\ norm_out.tier =
             _classify_tier(_normalize_event_type(norm_call.raw_type))
       /\ norm_out.tier =
             _classify_tier_daily(
                _normalize_event_type_daily(norm_call.raw_type))

\* A raw type only the weekly tables know went through the daily script.
C30_Witness ==
    /\ pc = "normalized"
    /\ norm_call.src = "daily"
    /\ norm_call.raw_type \in {"unsafe_parking",
                              "driver_facing_cam_obstruction",
                              "road-facing-cam-obstruction"}
    /\ norm_out.event_type # _normalize_event_type(norm_call.raw_type)
    /\ norm_out.tier = "ORANGE"

\* The number of events of a driver in the list of the call, and the names
\* the table lists.
OffenderCount(name) ==
    Cardinality({i \in 1..Len(offender_call.events) :
                    offender_call.events[i].driver = name})

OffenderDrivers ==
    {offender_call.events[i].driver : i \in 1..Len(offender_call.events)}

ListedNames ==
    {IF offender_call.source = "daily_camera" THEN offender_out[i].name
     ELSE offender_out[i].key : i \in 1..Len(offender_out)}

\* The named drivers whose events in the source reach the minimum.
Qualifying(minimum) ==
    {d \in OffenderDrivers \ {"Unknown"} : OffenderCount(d) >= minimum}

\* C23 as stated: the table lists exactly the named drivers with at least
\* 2 events in the daily camera report, 2 in the daily speeding report and
\* 3 in the weekly speeding section.
C23_Original ==
    pc = "offenders_listed" =>
       /\ Len(offender_out) = Cardinality(ListedNames)
       /\ ListedNames =
             Qualifying(IF offender_call.source = "weekly_speeding"
                        THEN 3 ELSE 2)

\* C23: the table never lists "Unknown" nor a driver twice.  The daily
\* camera report lists exactly the named drivers with at least 2 events and
\* the weekly speeding section exactly those with at least 3.  The daily
\* speeding report lists named drivers with at least 3 events, and at most
\* ten of them: when more than ten qualify, ten whose worst overspeed no
\* unlisted qualifying driver exceeds.
C23_RepeatOffenders ==
    pc = "offenders_listed" =>
       /\ Len(offender_out) = Cardinality(ListedNames)
       /\ "Unknown" \notin ListedNames
       /\ offender_call.source = "daily_camera" =>
             ListedNames = Qualifying(2)
       /\ offender_call.source = "weekly_speeding" =>
             ListedNames = Qualifying(3)
       /\ offender_call.source = "daily_speeding" =>
             /\ ListedNames \subseteq Qualifying(3)
             /\ Cardinality(ListedNames) =
                   IF Cardinality(Qualifying(3)) < 10
                   THEN Cardinality(Qualifying(3)) ELSE 10
             /\ \A a \in ListedNames, b \in Qualifying(3) \ ListedNames :
                   worst_over(offender_call.events, a) >=
                      worst_over(offender_call.events, b)

\* The daily speeding report had more than ten drivers to list.
C23_Witness ==
    /\ pc = "offenders_listed"
    /\ offender_call.source = "daily_speeding"
    /\ Cardinality(Qualifying(3)) > 10
    /\ Len(offender_out) = 10

\* The position of a yard in YARD_ORDER.
YardIndex(y) == CHOOSE i \in 1..Len(YARD_ORDER) : YARD_ORDER[i] = y

\* The events of a yard and its vehicles, read from the arguments of the
\* call.
ScoreEvents(y) ==
    Cardinality({i \in 1..Len(score_call.camera_events) :
                    score_call.camera_events[i].yard = y})
    + Cardinality({i \in 1..Len(score_call.speeding_events) :
                      score_call.speeding_events[i].yard = y})

ScoreVehicles(y) ==
    IF y \in DOMAIN score_call.yard_vehicle_counts
    THEN score_call.yard_vehicle_counts[y] ELSE 0

\* Every yard of YARD_ORDER once, with its own counts.
ScoreRowsComplete ==
    /\ Len(score_out) = Len(YARD_ORDER)
    /\ \A y \in Range(YARD_ORDER) :
          \E i \in 1..Len(score_out) :
             /\ score_out[i].yard = y
             /\ score_out[i].total = ScoreEvents(y)
             /\ score_out[i].vehicles = ScoreVehicles(y)

\* The events per vehicle of yard a are at least those of yard b, as exact
\* quotients (0 for a yard without vehicles), by cross-multiplication.
ExactRateGeq(a, b) ==
    LET ta == IF ScoreVehicles(a) = 0 THEN 0 ELSE ScoreEvents(a)
        tb == IF ScoreVehicles(b) = 0 THEN 0 ELSE ScoreEvents(b)
        va == IF ScoreVehicles(a) = 0 THEN 1 ELSE ScoreVehicles(a)
        vb == IF ScoreVehicles(b) = 0 THEN 1 ELSE ScoreVehicles(b)
    IN  ta * vb >= tb * va

\* C24 as stated: every yard once, ordered by non-increasing events per
\* vehicle, yards of equal rate in YARD_ORDER order.
C24_Original ==
    pc = "scored" =>
       /\ ScoreRowsComplete
       /\ \A i \in 1..(Len(score_out) - 1) :
             LET a == score_out[i].yard
                 b == score_out[i + 1].yard
             IN  /\ ExactRateGeq(a, b)
                 /\ ExactRateGeq(b, a) => YardIndex(a) < YardIndex(b)

\* C24: the scorecard holds every yard of YARD_ORDER once; the rate of a
\* yard is its events per vehicle rounded to the nearest hundredth, 0 for
\* a yard without vehicles; a quotient half way between two hundredths
\* goes to one of the two, 1/40 and 1/200 up (0.03, 0.01), 3/40 and 1/8
\* down (0.07, 0.12); the rows are in order of non-increasing rounded rate and rows
\* of equal rounded rate are in YARD_ORDER order; without events every
\* rate is 0 and the order is YARD_ORDER.
C24_Scorecard ==
    pc = "scored" =>
       /\ ScoreRowsComplete
       /\ \A i \in 1..Len(score_out) :
             LET ys == score_out[i]
             IN  IF ys.vehicles = 0 THEN ys.rate = 0
                 ELSE LET d == ys.rate * ys.vehicles - 100 * ys.total
                      IN  /\ 2 * d <= ys.vehicles /\ 2 * d >= 0 - ys.vehicles
                          /\ (ys.total = 1 /\ ys.vehicles = 40) => ys.rate = 3
                          /\ (ys.total = 3 /\ ys.vehicles = 40) => ys.rate = 7
                          /\ (ys.total = 1 /\ ys.vehicles = 200) => ys.rate = 1
                          /\ (ys.total = 1 /\ ys.vehicles = 8) => ys.rate = 12
       /\ \A i \in 1..(Len(score_out) - 1) :
             \/ score_out[i].rate > score_out[i + 1].rate
             \/ /\ score_out[i].rate = score_out[i + 1].rate
                /\ YardIndex(score_out[i].yard)
                      < YardIndex(score_out[i + 1].yard)
       /\ (score_call.camera_events = <<>>
           /\ score_call.speeding_events = <<>>) =>
             /\ \A i \in 1..Len(score_out) : score_out[i].rate = 0
             /\ [i \in 1..Len(score_out) |-> score_out[i].yard] = YARD_ORDER

\* Bryan with 2 events on 25 vehicles (0.08) stands before Midland with 3
\* events on 40 vehicles, whose quotient 0.075 is rounded to 0.07.
C24_Witness ==
    /\ pc = "scored"
    /\ score_out[1].yard = "Bryan" /\ score_out[1].total = 2
    /\ score_out[1].vehicles = 25 /\ score_out[1].rate = 8
    /\ score_out[2].yard = "Midland" /\ score_out[2].total = 3
    /\ score_out[2].vehicles = 40 /\ score_out[2].rate = 7

\* The two parts of the sort key of a camera event, by the script that
\* ran.
TierOrd(e) ==
    CASE e.tier = "RED" -> 0 [] e.tier = "ORANGE" -> 1
      [] e.tier = "YELLOW" -> 2

SeverityRank(e) ==
    IF pipeline = "weekly_camera" THEN EVENT_SEVERITY_ORDER(e.event_type)
    ELSE EVENT_SEVERITY_ORDER_daily(e.event_type)

SameKey(a, b) == TierOrd(a) = TierOrd(b) /\ SeverityRank(a) = SeverityRank(b)

KeyLeq(a, b) ==
    \/ TierOrd(a) < TierOrd(b)
    \/ TierOrd(a) = TierOrd(b) /\ SeverityRank(a) <= SeverityRank(b)

\* The enriched events in the order of the vendor's answer.
FetchedInOrder == [i \in RawPositions |-> EnrichedOf(raw_events[i])]

\* The list sorted once more with the key of the script that ran.
SortedAgain(events) ==
    StableSortBy(events,
       [i \in 1..Len(events) |->
           IF pipeline = "weekly_camera" THEN _event_sort_key(events[i])
           ELSE _event_sort_key_daily(events[i])])

\* C25: the camera events a fetch returns are in order of non-decreasing
\* (tier order, severity rank); an event whose type has no rank has rank 50
\* and stands after every ranked event of its tier; events of equal tier
\* and rank are in the order of the vendor's answer; sorting the returned
\* list again leaves it unchanged.
C25_SortedStable ==
    (pc = "camera_fetched" /\ ~pipeline_result.raised) =>
       LET out == pipeline_result.events
       IN  /\ \A i \in 1..(Len(out) - 1) : KeyLeq(out[i], out[i + 1])
           /\ \A i, j \in 1..Len(out) :
                 (/\ out[i].event_type \in {"u_turn", "rolling_stop"}
                  /\ out[j].event_type \notin {"u_turn", "rolling_stop"}
                  /\ out[i].tier = out[j].tier) =>
                    /\ SeverityRank(out[i]) = 50
                    /\ j < i
           /\ \A e \in Range(out) :
                 SelectSeq(out, LAMBDA x : SameKey(x, e)) =
                 SelectSeq(FetchedInOrder, LAMBDA x : SameKey(x, e))
           /\ Len(out) = Len(raw_events)
           /\ SortedAgain(out) = out

\* An answer that lists a type without rank first, then two different
\* types of equal rank, came back with the unranked event last and the
\* other two in the order of the answer.
C25_Witness ==
    /\ pc = "camera_fetched"
    /\ Len(raw_events) = 3
    /\ raw_events[1].type = "u_turn"
    /\ raw_events[2].type = "unsafe_lane_change"
    /\ raw_events[3].type = "lane_swerving"
    /\ ~pipeline_result.raised
    /\ pipeline_result.events =
          <<EnrichedOf(raw_events[2]), EnrichedOf(raw_events[3]),
            EnrichedOf(raw_events[1])>>

\* C26: determinism: two runs over the same records produce the same
\* recommendations, texts and order of the joined names included.
C26_Deterministic ==
    pc = "recommended_again" => rec_second = rec_first

-----------------------------------------------------------------------------
(* The distribution to the safety reps *)

\* The number of positions of s that hold x.
CountIn(s, x) == Cardinality({i \in 1..Len(s) : s[i] = x})

\* The table rows of one email, section after section.
RECURSIVE BodyRows(_)
BodyRows(body) ==
    IF body = <<>> THEN <<>> ELSE Head(body).rows \o BodyRows(Tail(body))

\* The emails of the outbox addressed to a rep.
MailOf(rep) == SelectSeq(dist_run.outbox, LAMBDA m : m.to = rep.emails)

\* The events of the file in one of the pairs of a rep.
EventsOfRep(rep) ==
    SelectSeq(dist_events,
              LAMBDA e : <<e.division, e.yard>> \in Range(rep.divisions))

InLoop == pc \in {"distributing", "distributed"}

\* Everything a run sent to the addresses of a rep: the emails with the
\* tables and the error notifications, which go to krhodes@brhas.com.
AllMailOf(rep) ==
    MailOf(rep) \o SelectSeq(dist_run.error_mail, LAMBDA m : m.to = rep.emails)

\* C27 as stated: each rep is sent at most one email of any kind, and a rep
\* with no matching event is sent none.
C27_Original ==
    InLoop =>
        \A r \in 1..Len(SAFETY_REP_MAP) :
            LET rep == SAFETY_REP_MAP[r]
            IN  /\ Len(AllMailOf(rep)) <= 1
                /\ EventsOfRep(rep) = <<>> => AllMailOf(rep) = <<>>

\* C27: in a run over a non-empty events file each rep is sent at most one
\* email with tables; its rows are exactly the events of the rep's pairs,
\* each as often as the file has it; a rep with no such event gets no email
\* with tables. The error notifications are apart: they hold no table and
\* all go to krhodes@brhas.com, the address of the rep Kelly Rhodes.
C27_OwnEventsOnly ==
    InLoop =>
        /\ \A r \in 1..Len(SAFETY_REP_MAP) :
              LET rep == SAFETY_REP_MAP[r]
              IN  /\ Len(MailOf(rep)) <= 1
                  /\ EventsOfRep(rep) = <<>> => MailOf(rep) = <<>>
                  /\ \A k \in 1..Len(MailOf(rep)) :
                       \A e \in DistEvent :
                          CountIn(BodyRows(MailOf(rep)[k].body), e)
                              = CountIn(EventsOfRep(rep), e)
        /\ \A m \in Range(dist_run.outbox) :
              \E r \in 1..Len(SAFETY_REP_MAP) : m.to = SAFETY_REP_MAP[r].emails
        /\ \A m \in Range(dist_run.error_mail) :
              m.to = SAFETY_REP_MAP[13].emails

\* A finished run over a Casing event of Midland and one of Bryan: the rep
\* of Midland was sent the Midland event alone, the send to the rep of
\* Bryan failed, and Kelly Rhodes, with no event, got the error
\* notification but no email with tables.
C27_Witness ==
    /\ pc = "distributed"
    /\ Len(dist_run.outbox) = 1
    /\ dist_run.outbox[1].to = SAFETY_REP_MAP[2].emails
    /\ Len(BodyRows(dist_run.outbox[1].body)) = 1
    /\ \E e \in Range(dist_events) : e.division = "Casing" /\ e.yard = "Bryan"
    /\ dist_run.log[3].kind = "FAIL"
    /\ dist_run.log[13].kind = "SKIP"
    /\ Len(dist_run.error_mail) = 1

\* C28: the loop handles the reps one by one in table order; every rep
\* handled is counted once as sent, skipped or failed; every failed send has
\* its error notification attempt, also a send whose message went out
\* before the exception; the loop goes on while reps are left, and at its
\* end the three counters add up to the number of reps.
C28_EveryRepOnce ==
    InLoop =>
        LET run == dist_run
            kinds(k) == Cardinality({j \in 1..Len(run.log) :
                                        run.log[j].kind = k})
        IN  /\ Len(run.log) = run.i - 1
            /\ \A j \in 1..Len(run.log) :
                  run.log[j].name = SAFETY_REP_MAP[j].name
            /\ run.sent_count = kinds("SENT")
            /\ run.skipped_count = kinds("SKIP")
            /\ run.fail_count = kinds("FAIL")
            /\ run.sent_count + run.skipped_count + run.fail_count
                  = Len(run.log)
            /\ Len(run.error_mail) = run.fail_count
            /\ run.sent_count <= Len(run.outbox)
            /\ Len(run.outbox) <= run.sent_count + run.fail_count
            /\ \A j \in 1..Len(run.log) :
                  run.log[j].kind = "FAIL" =>
                     \E m \in Range(run.error_mail) :
                        m.error_msg = "Failed to send to " \o run.log[j].name
            /\ pc = "distributing" =>
                  run.i <= Len(SAFETY_REP_MAP) /\ ENABLED DistributeRep
            /\ pc = "distributed" =>
                  run.sent_count + run.skipped_count + run.fail_count
                     = Len(SAFETY_REP_MAP)

\* A finished run in which the send to the first rep failed, its error
\* notification failed too, and a later rep was still sent its email.
C28_Witness ==
    /\ pc = "distributed"
    /\ dist_run.log[1].kind = "FAIL"
    /\ dist_run.error_mail[1].delivered = FALSE
    /\ \E j \in 2..Len(dist_run.log) : dist_run.log[j].kind = "SENT"
    /\ dist_run.skipped_count > 0

-----------------------------------------------------------------------------
(* The name-parsing loop *)

\* The number of tokens of s: the maximal runs of characters other than
\* the space.
TokenCount(s) ==
    Cardinality({i \in 1..Len(s) :
                    CharAt(s, i) # " " /\ (i = 1 \/ CharAt(s, i - 1) = " ")})

\* C29: the name-parsing loop terminates: every pass leaves a candidate
\* that is strictly shorter or empty, the passes made never outnumber the
\* tokens of the vehicle number, in the loop either another pass or the exit
\* is possible, and the loop ends with the name the enrich functions use.
C29_LoopTerminates ==
    pc \in {"name_loop", "name_parsed"} =>
        /\ \A k \in 1..(Len(name_trace) - 1) :
              /\ Len(name_trace[k + 1]) < Len(name_trace[k])
              /\ TokenCount(name_trace[k + 1]) < TokenCount(name_trace[k])
        /\ Len(name_trace) - 1 <= TokenCount(name_call)
        /\ pc = "name_loop" => ENABLED (ParseNameStep \/ ParseNameExit)
        /\ pc = "name_parsed" => name_out = parse_driver_name(name_call)

\* The loop ended after two passes, one that shortened the candidate to a
\* non-empty rest and one that emptied it.
C29_Witness ==
    /\ pc = "name_parsed"
    /\ Len(name_trace) = 3
    /\ name_trace[2] # ""
    /\ name_trace[3] = ""

====
